---- MODULE Spec2Model ----
(***************************************************************************)
(* A model of the iteration engines of @oxog/foreach: forEach,             *)
(* forEachAsync, forEachParallel, forEachChunked and forEachChunkedAsync   *)
(* over arrays (possibly sparse) and plain objects.  One call of one       *)
(* engine is modelled per behaviour; the caller's callback is the          *)
(* environment: each invocation returns undefined, returns a value or      *)
(* throws, and (for the async engines) settles at a time of its own.       *)
(***************************************************************************)
EXTENDS Integers, Sequences, FiniteSets, TLC

VARIABLES
    engine,            \* which exported function was called
    target,            \* the caller's collection (array or object)
    options,           \* the options record of the call
    pc,                \* position of the engine's main routine
    i,                 \* the main loop counter (0-based, as in the source)
    calls,             \* callback invocations so far, in invocation order
    cb,                \* per position: state of the callback's own promise
    task,              \* per position: state of the engine's per-element closure
    result,            \* how the call ended (or pending)
    permits,           \* Semaphore._permits
    queue,             \* Semaphore._queue (positions of the waiters, FIFO)
    microtasks,        \* promise reactions scheduled by the engine, FIFO
    chunkIndex,        \* chunked engines: current window
    processedInChunk,  \* chunked engines: successes counted in this window
    chunkLog,          \* onChunkComplete invocations, in order
    chain,             \* lazy: the stages, root first, each with its own counter
    reads,             \* lazy: the elements of the source read so far
    evals,             \* lazy: evaluations of the predicate / the transform so far
    yielded,           \* lazy: the values the last stage has produced, in order
    exhausted,         \* lazy: the last stage has reported done
    gens,              \* forEachGenerator: the generators created, with their output
    plugins,           \* PluginManager._plugins: per name, the PluginImpl registered
    executionOrder,    \* PluginManager._executionOrder
    exec,              \* the execute* call in progress or just ended
    hookLog,           \* plugins whose hook that call has invoked, in order
    disturbed,         \* the registry was changed while that call was waiting
    raised,            \* what the last registry operation threw (kept for the
                       \* operations made while no execute* call is waiting)
    asked,             \* Semaphore: the acquirers, in the order of their acquire()
    granted,           \* Semaphore: the acquirers, in the order they got a token
    timers,            \* withTimeout: per call, its timer, its race and its outcome
    delays             \* forEachChunkedAsync: the windows after which the delay was awaited

\* what the callback-driven engines never touch
registry == <<plugins, executionOrder, exec, hookLog, disturbed, raised>>
limiter == <<asked, granted>>
others == <<chain, reads, evals, yielded, exhausted, gens, registry, limiter, timers>>

vars == <<engine, target, options, pc, i, calls, cb, task, result,
          permits, queue, microtasks, chunkIndex, processedInChunk, chunkLog,
          others, delays>>

(***************************************************************************)
(* Bounds of the model.                                                    *)
(***************************************************************************)
MaxLen == 3

(***************************************************************************)
(* JavaScript values and primitives.                                       *)
(***************************************************************************)
HOLE  == "<hole>"        \* an index that is not `in` the array
UNDEF == "<undefined>"   \* the value undefined
Values == {"a", "b"}     \* element values (duplicates are possible)
Keys == <<"k1", "k2", "k3", "k4", "k5">>
Errors == {"E1", "E2"}   \* what a callback may throw
Returns == {UNDEF, "r"}  \* what a callback may return

Min(a, b) == IF a < b THEN a ELSE b
Range(s) == {s[n] : n \in DOMAIN s}

\* Array.prototype.reverse on a copy: holes keep their mirrored place
Reverse(s) == [n \in 1..Len(s) |-> s[Len(s) + 1 - n]]

\* Array.prototype.slice(from, to) with 0-based bounds, to exclusive
Slice(s, from, to) == [n \in 1..(Min(to, Len(s)) - from) |-> s[from + n]]

\* JS read of items[i]: a hole reads as undefined
Read(x) == IF x = HOLE THEN UNDEF ELSE x

\* Object.keys(object): own enumerable keys in enumeration order
KeysFrom(props) ==
    LET F[n \in 0..Len(props)] ==
          IF n = 0 THEN <<>>
          ELSE IF props[n].own THEN Append(F[n - 1], props[n].key) ELSE F[n - 1]
    IN F[Len(props)]

ObjectKeys(object) == KeysFrom(object.props)

\* Object.prototype.hasOwnProperty.call(obj, prop)
hasOwnProperty(object, key) ==
    \E n \in DOMAIN object.props : object.props[n].key = key /\ object.props[n].own

\* object[key]: own or inherited property, undefined when there is none
Get(object, key) ==
    IF \E n \in DOMAIN object.props : object.props[n].key = key
    THEN (CHOOSE p \in Range(object.props) : p.key = key).val
    ELSE UNDEF

isArray(t) == t.kind = "array"

(***************************************************************************)
(* The inputs of a call.                                                   *)
(***************************************************************************)
ArrayOf(n) == [1..n -> Values \cup {HOLE}]
Arrays == UNION {ArrayOf(n) : n \in 0..MaxLen}

\* a property is own with a value, own and undefined, or inherited
PropKinds == {[own |-> TRUE, val |-> "a"], [own |-> TRUE, val |-> UNDEF],
              [own |-> FALSE, val |-> "b"]}
PropsOf(n) ==
    {[m \in 1..n |-> [key |-> Keys[m], own |-> k[m].own, val |-> k[m].val]] :
        k \in [1..n -> PropKinds]}
Objects == UNION {PropsOf(n) : n \in 0..MaxLen}

Targets == {[kind |-> "array", elems |-> a, props |-> <<>>] : a \in Arrays}
           \cup {[kind |-> "object", elems |-> <<>>, props |-> p] : p \in Objects}

DefaultOptions ==
    [breakOnError |-> FALSE, breakOnReturn |-> FALSE, reverse |-> FALSE,
     timeout |-> 0, concurrency |-> 0, preserveOrder |-> FALSE,
     chunkSize |-> 0, hasOnChunkComplete |-> FALSE, delayBetweenChunks |-> 0]

(***************************************************************************)
(* The working view every engine builds first                              *)
(*   const items = reverse ? array.slice().reverse() : array               *)
(*   const items = reverse ? keys.reverse() : keys                         *)
(***************************************************************************)
Items ==
    IF isArray(target)
    THEN IF options.reverse THEN Reverse(target.elems) ELSE target.elems
    ELSE IF options.reverse THEN Reverse(ObjectKeys(target)) ELSE ObjectKeys(target)

Length == Len(Items)

\* mutant: the loop counter is passed as the index, reversed or not
ActualIndex_Forward(n) == n

\* const actualIndex = reverse ? length - 1 - i : i
ActualIndex(n) == IF options.reverse THEN Length - 1 - n ELSE n

\* `i in items`
InItems(n) == Items[n + 1] # HOLE

\* mutant: the index is looked up with items.indexOf(item)
ArgsAt_IndexOf(n) ==
    IF isArray(target)
    THEN [item |-> Read(Items[n + 1]),
          at |-> ActualIndex((CHOOSE m \in 1..Length :
                                /\ Items[m] = Items[n + 1]
                                /\ \A l \in 1..(m - 1) : Items[l] # Items[n + 1]) - 1)]
    ELSE [item |-> Get(target, Items[n + 1]), at |-> Items[n + 1]]

\* the (value, indexOrKey) pair the callback receives for loop position n
ArgsAt(n) ==
    IF isArray(target)
    THEN [item |-> Read(Items[n + 1]), at |-> ActualIndex(n)]
    ELSE [item |-> Get(target, Items[n + 1]), at |-> Items[n + 1]]

\* mutant: the `value === undefined` test is missing
SkipsKey_OwnOnly(n) == ~hasOwnProperty(target, Items[n + 1])

\* object engines: `!hasOwnProperty(object, key)` or `value === undefined`
SkipsKey(n) ==
    \/ ~hasOwnProperty(target, Items[n + 1])
    \/ Get(target, Items[n + 1]) = UNDEF

(***************************************************************************)
(* Callback promises, results and errors.                                  *)
(***************************************************************************)
None     == [t |-> "none", v |-> UNDEF]
Pending  == [t |-> "pending", v |-> UNDEF]
\* settled after the engine stopped listening: the outcome reaches nobody
Discarded == [t |-> "discarded", v |-> UNDEF]
AllOutcomes == {[t |-> "return", v |-> r] : r \in Returns}
               \cup {[t |-> "throw", v |-> e] : e \in Errors}
\* only forEach and forEachAsync look at what the callback returns
Outcomes ==
    IF engine \in {"forEach", "forEachAsync"} THEN AllOutcomes
    ELSE {o \in AllOutcomes : o.t = "return" => o.v = UNDEF}

Unsettled == [kind |-> "pending", at |-> <<>>, error |-> UNDEF]
Ok        == [kind |-> "ok", at |-> <<>>, error |-> UNDEF]
\* new ForEachError(msg, ITERATION_ERROR, { index | key, error })
ForEachError(at, e) == [kind |-> "ForEachError", at |-> <<at>>, error |-> e]
\* new TimeoutError(msg, { timeout, context })
TimeoutError(at) == [kind |-> "TimeoutError", at |-> <<at>>, error |-> UNDEF]
\* the callback's own error, rethrown as it is
Raw(e) == [kind |-> "raw", at |-> <<>>, error |-> e]

\* no lazy iterator and no generator exists in a call of these engines
NoIterators ==
    /\ chain = <<>>
    /\ reads = {}
    /\ evals = 0
    /\ yielded = <<>>
    /\ exhausted = FALSE
    /\ gens = <<>>

\* the order histories are kept for a Semaphore used on its own
NoLimiter == asked = <<>> /\ granted = <<>>

\* no call of withTimeout is followed on its own
NoTimers == timers = <<>>

\* no delay between windows has been awaited
NoDelays == delays = <<>>

\* no PluginManager takes part in a call of an engine or of an iterator
NoExecution ==
    [status |-> "idle", hook |-> "none", idx |-> 0, name |-> "none",
     invoked |-> FALSE, error |-> Ok]
NotRegistered == [registered |-> FALSE, enabled |-> FALSE, hooks |-> {}]
PluginNames == {"p1", "p2", "p3"}

NoPlugins ==
    /\ plugins = [name \in PluginNames |-> NotRegistered]
    /\ executionOrder = <<>>
    /\ exec = NoExecution
    /\ hookLog = <<>>
    /\ disturbed = FALSE
    /\ raised = Ok

InitCommon ==
    /\ pc = "loop"
    /\ i = 0
    /\ calls = <<>>
    /\ cb = [n \in 1..Length |-> None]
    /\ task = [n \in 1..Length |-> "new"]
    /\ result = Unsettled
    /\ permits = 0
    /\ queue = <<>>
    /\ microtasks = <<>>
    /\ chunkIndex = 0
    /\ processedInChunk = 0
    /\ chunkLog = <<>>

(***************************************************************************)
(* Sequential engine, synchronous: forEach.                                *)
(***************************************************************************)
\* mutants: the flag is ignored, one way or the other
Aborts_Never(out) == FALSE
Aborts_Always(out) == out.t = "throw"

\* catch (error) { if (breakOnError) throw ... }
Aborts(out) == out.t = "throw" /\ options.breakOnError

\* mutant: any returned value breaks the loop, breakOnReturn or not
Halts_WithoutOption(out) == out.t = "return" /\ out.v # UNDEF

\* if (... (breakOnReturn && result !== undefined)) break
Halts(out) == out.t = "return" /\ options.breakOnReturn /\ out.v # UNDEF

\* what the loop does with the callback's outcome (the try/catch body)
AfterSyncCallback(out, wrapped) ==
    IF out.t = "throw"
    THEN IF Aborts(out)
         THEN /\ pc' = "done"
              /\ result' = wrapped
              /\ i' = i
         ELSE /\ i' = i + 1
              /\ UNCHANGED <<pc, result>>
    ELSE IF Halts(out)
         THEN /\ pc' = "done"
              /\ result' = Ok
              /\ i' = i
         ELSE /\ i' = i + 1
              /\ UNCHANGED <<pc, result>>

\* the loop condition fails: the function returns
LoopExit ==
    /\ engine \in {"forEach", "forEachAsync"}
       \/ (engine = "forEachParallel" /\ ~options.preserveOrder)
    /\ pc = "loop"
    /\ i >= Length
    /\ pc' = "done"
    /\ result' = Ok
    /\ UNCHANGED <<others, delays, engine, target, options, i, calls, cb, task, permits, queue,
                   microtasks, chunkIndex, processedInChunk, chunkLog>>

\* one iteration of forEachArray: every index is processed, holes as undefined
forEachArray ==
    /\ engine = "forEach" /\ isArray(target)
    /\ pc = "loop" /\ i < Length
    /\ \E out \in Outcomes :
        /\ calls' = Append(calls, ArgsAt(i))
        /\ cb' = [cb EXCEPT ![i + 1] = out]
        /\ AfterSyncCallback(out, ForEachError(ActualIndex(i), out.v))
    /\ UNCHANGED <<others, delays, engine, target, options, task, permits, queue, microtasks,
                   chunkIndex, processedInChunk, chunkLog>>

\* one iteration of forEachObject
forEachObject ==
    /\ engine = "forEach" /\ ~isArray(target)
    /\ pc = "loop" /\ i < Length
    /\ IF SkipsKey(i)
       THEN /\ i' = i + 1
            /\ UNCHANGED <<calls, cb, pc, result>>
       ELSE \E out \in Outcomes :
            /\ calls' = Append(calls, ArgsAt(i))
            /\ cb' = [cb EXCEPT ![i + 1] = out]
            /\ AfterSyncCallback(out, ForEachError(Items[i + 1], out.v))
    /\ UNCHANGED <<others, delays, engine, target, options, task, permits, queue, microtasks,
                   chunkIndex, processedInChunk, chunkLog>>

(***************************************************************************)
(* Sequential engine, asynchronous: forEachAsync.                          *)
(***************************************************************************)
\* mutant: the callback is invoked and the loop goes on without awaiting it
AsyncInvoke_NoAwait(skip) ==
    /\ pc = "loop" /\ i < Length
    /\ IF skip
       THEN /\ i' = i + 1
            /\ UNCHANGED <<calls, cb, pc>>
       ELSE /\ calls' = Append(calls, ArgsAt(i))
            /\ cb' = [cb EXCEPT ![i + 1] = Pending]
            /\ pc' = "loop"
            /\ i' = i + 1
    /\ UNCHANGED <<others, delays, engine, target, options, task, result, permits, queue,
                   microtasks, chunkIndex, processedInChunk, chunkLog>>

\* the loop up to the await: skip, or invoke the callback and suspend
AsyncInvoke(skip) ==
    /\ pc = "loop" /\ i < Length
    /\ IF skip
       THEN /\ i' = i + 1
            /\ UNCHANGED <<calls, cb, pc>>
       ELSE /\ calls' = Append(calls, ArgsAt(i))
            /\ cb' = [cb EXCEPT ![i + 1] = Pending]
            /\ pc' = "await"
            /\ i' = i
    /\ UNCHANGED <<others, delays, engine, target, options, task, result, permits, queue,
                   microtasks, chunkIndex, processedInChunk, chunkLog>>

\* the callback's promise settles while the loop awaits it
AsyncSettle(at) ==
    /\ pc = "await"
    /\ \E out \in Outcomes :
        /\ cb' = [cb EXCEPT ![i + 1] = out]
        /\ IF out.t = "throw"
           THEN IF Aborts(out)
                THEN /\ pc' = "done"
                     /\ result' = ForEachError(at, out.v)
                     /\ i' = i
                ELSE /\ pc' = "loop"
                     /\ i' = i + 1
                     /\ UNCHANGED result
           ELSE IF Halts(out)
                THEN /\ pc' = "done"
                     /\ result' = Ok
                     /\ i' = i
                ELSE /\ pc' = "loop"
                     /\ i' = i + 1
                     /\ UNCHANGED result
    /\ UNCHANGED <<others, delays, engine, target, options, calls, task, permits, queue,
                   microtasks, chunkIndex, processedInChunk, chunkLog>>

\* withTimeout's timer fires first: TimeoutError is always rethrown
AsyncTimeout(at) ==
    /\ pc = "await"
    /\ options.timeout > 0
    /\ pc' = "done"
    /\ result' = TimeoutError(at)
    /\ task' = [task EXCEPT ![i + 1] = "timedout"]
    /\ UNCHANGED <<others, delays, engine, target, options, i, calls, cb, permits, queue,
                   microtasks, chunkIndex, processedInChunk, chunkLog>>

forEachArrayAsync ==
    /\ engine = "forEachAsync" /\ isArray(target)
    /\ \/ AsyncInvoke(~InItems(i))
       \/ AsyncSettle(ActualIndex(i))
       \/ AsyncTimeout(ActualIndex(i))

forEachObjectAsync ==
    /\ engine = "forEachAsync" /\ ~isArray(target)
    /\ \/ AsyncInvoke(SkipsKey(i))
       \/ AsyncSettle(Items[i + 1])
       \/ AsyncTimeout(Items[i + 1])

\* is some continuation of the engine still waiting for callback n?
Awaited(n) ==
    \/ pc = "await" /\ n = i + 1
    \/ task[n] = "running"

\* a callback abandoned by a timeout or by a rejected join settles later:
\* nobody listens any more
LateSettle ==
    /\ \E n \in 1..Length :
        /\ cb[n] = Pending
        /\ ~Awaited(n)
        /\ cb' = [cb EXCEPT ![n] = Discarded]
    /\ UNCHANGED <<others, delays, engine, target, options, pc, i, calls, task, result, permits,
                   queue, microtasks, chunkIndex, processedInChunk, chunkLog>>

InitSeq ==
    /\ engine \in {"forEach", "forEachAsync"}
    /\ target \in Targets
    /\ \E boe \in BOOLEAN, bor \in BOOLEAN, rev \in BOOLEAN, t \in {0, 1} :
        /\ engine = "forEach" => t = 0
        /\ options = [DefaultOptions EXCEPT !.breakOnError = boe,
                         !.breakOnReturn = bor, !.reverse = rev, !.timeout = t]
    /\ InitCommon
    /\ NoIterators
    /\ NoPlugins
    /\ NoLimiter
    /\ NoTimers
    /\ NoDelays

NextSeq ==
    \/ LoopExit
    \/ forEachArray
    \/ forEachObject
    \/ forEachArrayAsync
    \/ forEachObjectAsync
    \/ LateSettle

SpecSeq == InitSeq /\ [][NextSeq]_vars

(***************************************************************************)
(* Semaphore.                                                              *)
(***************************************************************************)
Microtask(op, n, err) == [op |-> op, n |-> n, err |-> err]

\* mutant: a waiter is put at the front of the queue (unshift)
Acquire_Unshift(s, n) ==
    IF s.permits > 0
    THEN [s EXCEPT !.permits = s.permits - 1,
                   !.microtasks = Append(s.microtasks, Microtask("start", n, Ok))]
    ELSE [s EXCEPT !.queue = <<n>> \o s.queue]

\* Semaphore.acquire() followed by .then(closure) for position n, on a
\* semaphore state s = [permits, queue, microtasks]
Acquire(s, n) ==
    IF s.permits > 0
    THEN [s EXCEPT !.permits = s.permits - 1,
                   !.microtasks = Append(s.microtasks, Microtask("start", n, Ok))]
    ELSE [s EXCEPT !.queue = Append(s.queue, n)]

\* mutant: release resumes the waiter that came last
Release_NewestFirst(s) ==
    LET p == s.permits + 1 IN
    IF Len(s.queue) > 0 /\ p > 0
    THEN [permits |-> p - 1,
          queue |-> SubSeq(s.queue, 1, Len(s.queue) - 1),
          microtasks |-> Append(s.microtasks,
                                Microtask("start", s.queue[Len(s.queue)], Ok))]
    ELSE [s EXCEPT !.permits = p]

\* mutant: release only counts the permit, no waiter is resumed
Release_NoWake(s) == [s EXCEPT !.permits = s.permits + 1]

\* Semaphore.release(): the head waiter takes the permit and is resumed
Release(s) ==
    LET p == s.permits + 1 IN
    IF Len(s.queue) > 0 /\ p > 0
    THEN [permits |-> p - 1,
          queue |-> Tail(s.queue),
          microtasks |-> Append(s.microtasks, Microtask("start", Head(s.queue), Ok))]
    ELSE [s EXCEPT !.permits = p]

Sem == [permits |-> permits, queue |-> queue, microtasks |-> microtasks]

InFlight == {n \in 1..Length : cb[n] = Pending}

(***************************************************************************)
(* Parallel engine: forEachParallel.                                       *)
(***************************************************************************)
\* const { concurrency = 10, preserveOrder = false } = options
DefaultConcurrency == 10
Concurrency == IF options.concurrency = 0 THEN DefaultConcurrency ELSE options.concurrency

\* createChunks(array, size): the 0-based start offsets of the chunks
ChunkStarts(len, size) == {n \in 0..(len - 1) : n % size = 0}

\* the positions (1-based) of the chunk that starts at offset n
ChunkMembers(n, size) == (n + 1)..Min(n + size, Length)

\* the elements of a chunk for which chunk.map runs its closure: map skips
\* the holes of an array; for an object every key has a closure
Mapped(members) ==
    IF isArray(target) THEN {n \in members : InItems(n - 1)} ELSE members

\* closures of an object chunk that return before the callback
EarlyReturn(members) ==
    IF isArray(target) THEN {} ELSE {n \in members : SkipsKey(n - 1)}

\* the invocations chunk.map makes, in order, for positions from..to
RECURSIVE Invocations(_, _, _)
Invocations(from, to, skipped) ==
    IF from > to THEN <<>>
    ELSE IF from \in skipped THEN Invocations(from + 1, to, skipped)
    ELSE <<ArgsAt(from - 1)>> \o Invocations(from + 1, to, skipped)

\* preserveOrder: the positions that ask the semaphore for a slot
\*   object: `if (key == null || !hasOwnProperty(object, key)) continue`
Admitted ==
    IF isArray(target) THEN 1..Length
    ELSE {n \in 1..Length : hasOwnProperty(target, Items[n])}

\* the promises Promise.all waits for in the current stage of the call
Joined ==
    IF engine = "forEachParallel" /\ options.preserveOrder
    THEN Admitted
    ELSE IF engine = "forEachParallel"
    THEN Mapped(ChunkMembers(i, Concurrency))
    ELSE Mapped(ChunkMembers(chunkIndex * options.chunkSize, options.chunkSize))

\* mutant: the join is fulfilled by the first fulfilment (Promise.race)
NotifyJoin_First(mt, task1, rejection) ==
    IF pc # "join" THEN [pc |-> pc, microtasks |-> mt]
    ELSE IF rejection # Ok
    THEN [pc |-> "joined", microtasks |-> Append(mt, Microtask("join", 0, rejection))]
    ELSE IF \E n \in Joined : task1[n] = "resolved"
    THEN [pc |-> "joined", microtasks |-> Append(mt, Microtask("join", 0, Ok))]
    ELSE [pc |-> pc, microtasks |-> mt]

\* Promise.all: rejected by the first rejection, fulfilled by the last fulfilment
NotifyJoin(mt, task1, rejection) ==
    IF pc # "join" THEN [pc |-> pc, microtasks |-> mt]
    ELSE IF rejection # Ok
    THEN [pc |-> "joined", microtasks |-> Append(mt, Microtask("join", 0, rejection))]
    ELSE IF \A n \in Joined : task1[n] = "resolved"
    THEN [pc |-> "joined", microtasks |-> Append(mt, Microtask("join", 0, Ok))]
    ELSE [pc |-> pc, microtasks |-> mt]

\* preserveOrder: the whole for loop is synchronous; every element asks
\* the semaphore for a slot, then the routine awaits Promise.all(results)
RECURSIVE AcquireAll(_, _, _)
AcquireAll(s, from, to) ==
    IF from > to THEN s
    ELSE IF from \in Admitted THEN AcquireAll(Acquire(s, from), from + 1, to)
    ELSE AcquireAll(s, from + 1, to)

ParallelAdmit ==
    /\ engine = "forEachParallel" /\ options.preserveOrder
    /\ pc = "loop"
    /\ LET s == AcquireAll([permits |-> Concurrency, queue |-> <<>>,
                            microtasks |-> <<>>], 1, Length)
       IN /\ permits' = s.permits
          /\ queue' = s.queue
          /\ task' = [n \in 1..Length |->
                        IF n \in Admitted THEN "waiting" ELSE task[n]]
          /\ IF Admitted = {}
             THEN /\ pc' = "joined"
                  /\ microtasks' = Append(s.microtasks, Microtask("join", 0, Ok))
             ELSE /\ pc' = "join"
                  /\ microtasks' = s.microtasks
    /\ UNCHANGED <<others, delays, engine, target, options, i, calls, cb, result,
                   chunkIndex, processedInChunk, chunkLog>>

\* the closure given to acquire().then(...) starts for position n
\*   array:  a hole releases and returns, and `finally` releases again
\*   object: an undefined value does the same
ParallelStart(n) ==
    /\ engine = "forEachParallel" /\ options.preserveOrder
    /\ microtasks # <<>> /\ Head(microtasks) = Microtask("start", n, Ok)
    /\ LET rest == [permits |-> permits, queue |-> queue,
                    microtasks |-> Tail(microtasks)]
           skip == IF isArray(target) THEN ~InItems(n - 1)
                   ELSE Get(target, Items[n]) = UNDEF
       IN IF skip
          THEN LET s == Release(Release(rest))
                   t == [task EXCEPT ![n] = "resolved"]
                   j == NotifyJoin(s.microtasks, t, Ok)
               IN /\ permits' = s.permits
                  /\ queue' = s.queue
                  /\ task' = t
                  /\ pc' = j.pc
                  /\ microtasks' = j.microtasks
                  /\ UNCHANGED <<calls, cb>>
          ELSE /\ calls' = Append(calls, ArgsAt(n - 1))
               /\ cb' = [cb EXCEPT ![n] = Pending]
               /\ task' = [task EXCEPT ![n] = "running"]
               /\ microtasks' = Tail(microtasks)
               /\ UNCHANGED <<permits, queue, pc>>
    /\ UNCHANGED <<others, delays, engine, target, options, i, result,
                   chunkIndex, processedInChunk, chunkLog>>

\* grouped mode: one chunk of `concurrency` elements is launched at once
\* (chunk.map invokes every callback before the routine awaits Promise.all)
ParallelLaunch ==
    /\ engine = "forEachParallel" /\ ~options.preserveOrder
    /\ pc = "loop" /\ i < Length
    /\ LET members == ChunkMembers(i, Concurrency)
           early == EarlyReturn(members)
           run == Mapped(members) \ early
           t == [n \in 1..Length |->
                   IF n \in run THEN "running"
                   ELSE IF n \in early THEN "resolved" ELSE task[n]]
       IN /\ calls' = calls \o Invocations(i + 1, Min(i + Concurrency, Length),
                                           members \ run)
          /\ cb' = [n \in 1..Length |-> IF n \in run THEN Pending ELSE cb[n]]
          /\ task' = t
          /\ IF run = {}
             THEN /\ pc' = "joined"
                  /\ microtasks' = Append(microtasks, Microtask("join", 0, Ok))
             ELSE /\ pc' = "join"
                  /\ UNCHANGED microtasks
    /\ UNCHANGED <<others, delays, engine, target, options, i, result, permits, queue,
                   chunkIndex, processedInChunk, chunkLog>>

\* the closure's try/catch/finally once its await has an outcome
\*   outcome: the callback's settlement, or the timer of withTimeout
ClosureEnds(n, rejection) ==
    LET rest == IF options.preserveOrder THEN Release(Sem) ELSE Sem
        t == [task EXCEPT ![n] = IF rejection = Ok THEN "resolved"
                                 ELSE IF rejection.kind = "TimeoutError"
                                 THEN "timedout" ELSE "rejected"]
        j == NotifyJoin(rest.microtasks, t, rejection)
    IN /\ permits' = rest.permits
       /\ queue' = rest.queue
       /\ task' = t
       /\ pc' = j.pc
       /\ microtasks' = j.microtasks

\* the callback of position n settles while its closure awaits it
ParallelSettle(n) ==
    /\ engine = "forEachParallel"
    /\ task[n] = "running"
    /\ \E out \in Outcomes :
        /\ cb' = [cb EXCEPT ![n] = out]
        /\ ClosureEnds(n, IF Aborts(out) THEN Raw(out.v) ELSE Ok)
    /\ UNCHANGED <<others, delays, engine, target, options, i, calls, result,
                   chunkIndex, processedInChunk, chunkLog>>

\* withTimeout's timer fires before the callback of position n settles
ParallelTimeout(n) ==
    /\ engine = "forEachParallel"
    /\ task[n] = "running"
    /\ options.timeout > 0
    /\ microtasks = <<>>
    /\ ClosureEnds(n, TimeoutError(ArgsAt(n - 1).at))
    /\ UNCHANGED <<others, delays, engine, target, options, i, calls, cb, result,
                   chunkIndex, processedInChunk, chunkLog>>

\* mutant: a timeout is treated like any other error
Rethrows_OnlyBreakOnError(err) == err # Ok /\ options.breakOnError

\* catch (error) { if (error instanceof TimeoutError) throw error;
\*                 if (breakOnError) throw error; }
Rethrows(err) == err.kind = "TimeoutError" \/ (err # Ok /\ options.breakOnError)

\* the routine resumes after `await Promise.all(...)`
ParallelJoin ==
    /\ engine = "forEachParallel"
    /\ pc = "joined"
    /\ microtasks # <<>> /\ Head(microtasks).op = "join"
    /\ microtasks' = Tail(microtasks)
    /\ LET err == Head(microtasks).err IN
       IF Rethrows(err)
       THEN /\ pc' = "done"
            /\ result' = err
            /\ i' = i
       ELSE IF options.preserveOrder
       THEN /\ pc' = "done"
            /\ result' = Ok
            /\ i' = i
       ELSE /\ pc' = "loop"
            /\ i' = i + Concurrency
            /\ UNCHANGED result
    /\ UNCHANGED <<others, delays, engine, target, options, calls, cb, task, permits, queue,
                   chunkIndex, processedInChunk, chunkLog>>

forEachArrayParallel ==
    /\ isArray(target)
    /\ \/ ParallelAdmit
       \/ ParallelLaunch
       \/ \E n \in 1..Length : ParallelStart(n)
       \/ \E n \in 1..Length : ParallelSettle(n)
       \/ \E n \in 1..Length : ParallelTimeout(n)
       \/ ParallelJoin

forEachObjectParallel ==
    /\ ~isArray(target)
    /\ \/ ParallelAdmit
       \/ ParallelLaunch
       \/ \E n \in 1..Length : ParallelStart(n)
       \/ \E n \in 1..Length : ParallelSettle(n)
       \/ \E n \in 1..Length : ParallelTimeout(n)
       \/ ParallelJoin

MaxConcurrency == 2

InitPar ==
    /\ engine = "forEachParallel"
    /\ target \in Targets
    /\ \E boe \in BOOLEAN, rev \in BOOLEAN, t \in {0, 1},
          c \in 1..MaxConcurrency, po \in BOOLEAN :
        options = [DefaultOptions EXCEPT !.breakOnError = boe, !.reverse = rev,
                      !.timeout = t, !.concurrency = c, !.preserveOrder = po]
    /\ InitCommon
    /\ NoIterators
    /\ NoPlugins
    /\ NoLimiter
    /\ NoTimers
    /\ NoDelays

NextPar ==
    \/ LoopExit
    \/ forEachArrayParallel
    \/ forEachObjectParallel
    \/ LateSettle

SpecPar == InitPar /\ [][NextPar]_vars

(***************************************************************************)
(* Chunked engine: forEachChunked, forEachChunkedAsync.                    *)
(***************************************************************************)
\* mutant: Math.floor in place of Math.ceil
Chunks_Floor == Length \div options.chunkSize

\* mutant: an empty collection still gets one window
Chunks_AtLeastOne ==
    IF Length = 0 THEN 1 ELSE (Length + options.chunkSize - 1) \div options.chunkSize

\* const chunks = Math.ceil(length / chunkSize)
Chunks == (Length + options.chunkSize - 1) \div options.chunkSize
\* const start = chunkIndex * chunkSize
Start == chunkIndex * options.chunkSize
\* mutant: the window runs to the end of the collection
End_Length == Length
\* const end = Math.min(start + chunkSize, length)
End == Min(Start + options.chunkSize, Length)
\* const { concurrency = 1 } = options
ChunkConcurrency == IF options.concurrency = 0 THEN 1 ELSE options.concurrency

\* the outer loop condition fails: the function returns
ChunkedExit ==
    /\ engine \in {"forEachChunked", "forEachChunkedAsync"}
    /\ pc = "loop"
    /\ chunkIndex >= Chunks
    /\ pc' = "done"
    /\ result' = Ok
    /\ UNCHANGED <<others, delays, engine, target, options, i, calls, cb, task, permits, queue,
                   microtasks, chunkIndex, processedInChunk, chunkLog>>

\* mutant: the delay is awaited after every window
Delayed_EveryWindow ==
    /\ engine = "forEachChunkedAsync"
    /\ options.delayBetweenChunks > 0

\* if (delayBetweenChunks > 0 && chunkIndex < chunks - 1)
Delayed ==
    /\ engine = "forEachChunkedAsync"
    /\ options.delayBetweenChunks > 0
    /\ chunkIndex < Chunks - 1

\* mutant: a window in which nothing was processed is not reported
ChunkComplete_SkipsEmpty ==
    /\ engine \in {"forEachChunked", "forEachChunkedAsync"}
    /\ pc = "loop"
    /\ chunkIndex < Chunks
    /\ i >= End
    /\ chunkLog' = IF options.hasOnChunkComplete /\ processedInChunk > 0
                   THEN Append(chunkLog, <<chunkIndex, processedInChunk>>)
                   ELSE chunkLog
    /\ chunkIndex' = chunkIndex + 1
    /\ i' = (chunkIndex + 1) * options.chunkSize
    /\ processedInChunk' = 0
    /\ IF Delayed
       THEN pc' = "delay" /\ delays' = Append(delays, chunkIndex)
       ELSE UNCHANGED <<pc, delays>>
    /\ UNCHANGED <<others, engine, target, options, calls, cb, task, result,
                   permits, queue, microtasks>>

\* the window is through: onChunkComplete(chunkIndex, processedInChunk),
\* then await delay(delayBetweenChunks) or the next window at once
ChunkComplete ==
    /\ engine \in {"forEachChunked", "forEachChunkedAsync"}
    /\ pc = "loop"
    /\ chunkIndex < Chunks
    /\ i >= End
    /\ chunkLog' = IF options.hasOnChunkComplete
                   THEN Append(chunkLog, <<chunkIndex, processedInChunk>>)
                   ELSE chunkLog
    /\ chunkIndex' = chunkIndex + 1
    /\ i' = (chunkIndex + 1) * options.chunkSize
    /\ processedInChunk' = 0
    /\ IF Delayed
       THEN pc' = "delay" /\ delays' = Append(delays, chunkIndex)
       ELSE UNCHANGED <<pc, delays>>
    /\ UNCHANGED <<others, engine, target, options, calls, cb, task, result,
                   permits, queue, microtasks>>

\* the timer of delay(ms) resolves its promise: the outer loop goes on
DelayEnds ==
    /\ engine = "forEachChunkedAsync"
    /\ pc = "delay"
    /\ pc' = "loop"
    /\ UNCHANGED <<others, delays, engine, target, options, i, calls, cb, task, result,
                   permits, queue, microtasks, chunkIndex, processedInChunk, chunkLog>>

\* one iteration of the inner loop of the synchronous engine
ChunkedIterate(skip) ==
    /\ engine = "forEachChunked"
    /\ pc = "loop" /\ chunkIndex < Chunks /\ i < End
    /\ IF skip
       THEN /\ i' = i + 1
            /\ UNCHANGED <<calls, cb, pc, result, processedInChunk>>
       ELSE \E out \in Outcomes :
            /\ calls' = Append(calls, ArgsAt(i))
            /\ cb' = [cb EXCEPT ![i + 1] = out]
            /\ IF out.t = "throw"
               THEN IF Aborts(out)
                    THEN /\ pc' = "done"
                         /\ result' = Raw(out.v)
                         /\ UNCHANGED <<i, processedInChunk>>
                    ELSE /\ i' = i + 1
                         /\ UNCHANGED <<pc, result, processedInChunk>>
               ELSE /\ processedInChunk' = processedInChunk + 1
                    /\ i' = i + 1
                    /\ UNCHANGED <<pc, result>>
    /\ UNCHANGED <<others, delays, engine, target, options, task, permits, queue, microtasks,
                   chunkIndex, chunkLog>>

forEachArrayChunked == isArray(target) /\ ChunkedIterate(~InItems(i))

forEachObjectChunked == ~isArray(target) /\ ChunkedIterate(SkipsKey(i))

\* concurrency <= 1: the inner loop up to its await
ChunkedInvoke(skip) ==
    /\ engine = "forEachChunkedAsync" /\ ChunkConcurrency <= 1
    /\ pc = "loop" /\ chunkIndex < Chunks /\ i < End
    /\ IF skip
       THEN /\ i' = i + 1
            /\ UNCHANGED <<calls, cb, pc>>
       ELSE /\ calls' = Append(calls, ArgsAt(i))
            /\ cb' = [cb EXCEPT ![i + 1] = Pending]
            /\ pc' = "await"
            /\ i' = i
    /\ UNCHANGED <<others, delays, engine, target, options, task, result, permits, queue,
                   microtasks, chunkIndex, processedInChunk, chunkLog>>

\* concurrency <= 1: the awaited callback settles
ChunkedResume ==
    /\ engine = "forEachChunkedAsync"
    /\ pc = "await"
    /\ \E out \in Outcomes :
        /\ cb' = [cb EXCEPT ![i + 1] = out]
        /\ IF out.t = "throw"
           THEN IF Aborts(out)
                THEN /\ pc' = "done"
                     /\ result' = Raw(out.v)
                     /\ UNCHANGED <<i, processedInChunk>>
                ELSE /\ pc' = "loop"
                     /\ i' = i + 1
                     /\ UNCHANGED <<result, processedInChunk>>
           ELSE /\ processedInChunk' = processedInChunk + 1
                /\ pc' = "loop"
                /\ i' = i + 1
                /\ UNCHANGED result
    /\ UNCHANGED <<others, delays, engine, target, options, calls, task, permits, queue,
                   microtasks, chunkIndex, chunkLog>>

\* for (let i = start; i < end; i += concurrency): the batch offsets
BatchStarts == {n \in Start..(End - 1) : (n - Start) % ChunkConcurrency = 0}

\* the positions of items.slice(n, Math.min(n + concurrency, end))
BatchMembers(n) == (n + 1)..Min(n + ChunkConcurrency, End)

\* concurrency > 1: the batch loop has no await in it, so batch.map starts
\* the callbacks of every batch of the window before Promise.all is awaited
ChunkedLaunch ==
    /\ engine = "forEachChunkedAsync" /\ ChunkConcurrency > 1
    /\ pc = "loop" /\ chunkIndex < Chunks /\ i < End
    /\ LET members == UNION {BatchMembers(n) : n \in BatchStarts}
           early == EarlyReturn(members)
           run == Mapped(members) \ early
       IN /\ calls' = calls \o Invocations(Start + 1, End, members \ run)
          /\ cb' = [n \in 1..Length |-> IF n \in run THEN Pending ELSE cb[n]]
          /\ task' = [n \in 1..Length |->
                        IF n \in run THEN "running"
                        ELSE IF n \in early THEN "resolved" ELSE task[n]]
          /\ IF run = {}
             THEN /\ pc' = "joined"
                  /\ microtasks' = Append(microtasks, Microtask("join", 0, Ok))
             ELSE /\ pc' = "join"
                  /\ UNCHANGED microtasks
    /\ UNCHANGED <<others, delays, engine, target, options, i, result, permits, queue,
                   chunkIndex, processedInChunk, chunkLog>>

\* concurrency > 1: the callback of position n settles
ChunkedSettle(n) ==
    /\ engine = "forEachChunkedAsync"
    /\ task[n] = "running"
    /\ \E out \in Outcomes :
        /\ cb' = [cb EXCEPT ![n] = out]
        /\ processedInChunk' =
              IF out.t = "return" THEN processedInChunk + 1 ELSE processedInChunk
        /\ LET rejection == IF Aborts(out) THEN Raw(out.v) ELSE Ok
               t == [task EXCEPT ![n] = IF rejection = Ok THEN "resolved"
                                        ELSE "rejected"]
               j == NotifyJoin(microtasks, t, rejection)
           IN /\ task' = t
              /\ pc' = j.pc
              /\ microtasks' = j.microtasks
    /\ UNCHANGED <<others, delays, engine, target, options, i, calls, result, permits, queue,
                   chunkIndex, chunkLog>>

\* concurrency > 1: the routine resumes after `await Promise.all(promises)`
ChunkedJoin ==
    /\ engine = "forEachChunkedAsync"
    /\ pc = "joined"
    /\ microtasks # <<>> /\ Head(microtasks).op = "join"
    /\ microtasks' = Tail(microtasks)
    /\ IF Head(microtasks).err # Ok
       THEN /\ pc' = "done"
            /\ result' = Head(microtasks).err
            /\ i' = i
       ELSE /\ pc' = "loop"
            /\ i' = End
            /\ UNCHANGED result
    /\ UNCHANGED <<others, delays, engine, target, options, calls, cb, task, permits, queue,
                   chunkIndex, processedInChunk, chunkLog>>

forEachArrayChunkedAsync ==
    /\ isArray(target)
    /\ \/ ChunkedInvoke(~InItems(i))
       \/ ChunkedResume
       \/ ChunkedLaunch
       \/ \E n \in 1..Length : ChunkedSettle(n)
       \/ ChunkedJoin

forEachObjectChunkedAsync ==
    /\ ~isArray(target)
    /\ \/ ChunkedInvoke(SkipsKey(i))
       \/ ChunkedResume
       \/ ChunkedLaunch
       \/ \E n \in 1..Length : ChunkedSettle(n)
       \/ ChunkedJoin

MaxChunkSize == 3

InitChunk ==
    /\ engine \in {"forEachChunked", "forEachChunkedAsync"}
    /\ target \in Targets
    /\ \E boe \in BOOLEAN, rev \in BOOLEAN, cs \in 1..MaxChunkSize,
          c \in {0} \cup 2..MaxConcurrency, occ \in BOOLEAN :
        /\ engine = "forEachChunked" => c = 0
        /\ options = [DefaultOptions EXCEPT !.breakOnError = boe, !.reverse = rev,
                         !.chunkSize = cs, !.concurrency = c,
                         !.hasOnChunkComplete = occ]
    /\ InitCommon
    /\ NoIterators
    /\ NoPlugins
    /\ NoLimiter
    /\ NoTimers
    /\ NoDelays

NextChunk ==
    \/ ChunkedExit
    \/ ChunkComplete
    \/ forEachArrayChunked
    \/ forEachObjectChunked
    \/ forEachArrayChunkedAsync
    \/ forEachObjectChunkedAsync

SpecChunk == InitChunk /\ [][NextChunk]_vars

(***************************************************************************)
(* forEachChunkedAsync with delayBetweenChunks > 0.                        *)
(***************************************************************************)
InitDelay ==
    /\ engine = "forEachChunkedAsync"
    /\ target \in Targets
    /\ \E boe \in BOOLEAN, rev \in BOOLEAN, cs \in 1..MaxChunkSize,
          c \in {0} \cup 2..MaxConcurrency, occ \in BOOLEAN :
        options = [DefaultOptions EXCEPT !.breakOnError = boe, !.reverse = rev,
                      !.chunkSize = cs, !.concurrency = c,
                      !.hasOnChunkComplete = occ, !.delayBetweenChunks = 1]
    /\ InitCommon
    /\ NoIterators
    /\ NoPlugins
    /\ NoLimiter
    /\ NoTimers
    /\ NoDelays

NextDelay ==
    \/ ChunkedExit
    \/ ChunkComplete
    \/ DelayEnds
    \/ forEachArrayChunkedAsync
    \/ forEachObjectChunkedAsync

SpecDelay == InitDelay /\ [][NextDelay]_vars

(***************************************************************************)
(* Any engine.                                                             *)
(***************************************************************************)
Init == InitSeq \/ InitPar \/ InitChunk

Next == NextSeq \/ NextPar \/ NextChunk

Spec == Init /\ [][Next]_vars

(***************************************************************************)
(* Any engine, called on a plain object.                                   *)
(***************************************************************************)
InitMap == Init /\ ~isArray(target)

NextMap ==
    \/ LoopExit
    \/ forEachObject
    \/ forEachObjectAsync
    \/ forEachObjectParallel
    \/ ChunkedExit
    \/ ChunkComplete
    \/ forEachObjectChunked
    \/ forEachObjectChunkedAsync
    \/ LateSettle

SpecMap == InitMap /\ [][NextMap]_vars

(***************************************************************************)
(* The engines that take a timeout: forEachAsync and forEachParallel.      *)
(***************************************************************************)
InitAsync == (InitSeq /\ engine = "forEachAsync") \/ InitPar

NextAsync ==
    \/ LoopExit
    \/ forEachArrayAsync
    \/ forEachObjectAsync
    \/ forEachArrayParallel
    \/ forEachObjectParallel
    \/ LateSettle

SpecAsync == InitAsync /\ [][NextAsync]_vars

(***************************************************************************)
(* Vocabulary of the properties, stated on the caller's collection and on  *)
(* the observed invocations.                                               *)
(***************************************************************************)
SeqEngine == engine \in {"forEach", "forEachAsync"}

\* indices of the caller's array that hold an element
PresentIndices == {x \in 0..(Len(target.elems) - 1) : target.elems[x + 1] # HOLE}

\* own keys of the caller's object whose value is not undefined
OwnDefinedKeys ==
    {target.props[n].key : n \in {m \in DOMAIN target.props :
        target.props[m].own /\ target.props[m].val # UNDEF}}

\* the elements of the collection, named by index or key
Elements == IF isArray(target) THEN PresentIndices ELSE OwnDefinedKeys

\* place of an index or key in the iteration order of the call
Rank(at) ==
    LET fwd == IF isArray(target) THEN at
               ELSE CHOOSE n \in DOMAIN target.props : target.props[n].key = at
    IN IF options.reverse THEN 0 - fwd ELSE fwd

\* the index or key that loop position n stands for
AtOfPos(n) ==
    IF isArray(target)
    THEN IF options.reverse THEN Len(target.elems) - n ELSE n - 1
    ELSE Items[n]

CalledAt == {calls[k].at : k \in DOMAIN calls}

\* invocations follow the iteration order, none twice
InOrder ==
    \A k, l \in DOMAIN calls : k < l => Rank(calls[k].at) < Rank(calls[l].at)

Failed == {n \in DOMAIN cb : cb[n].t = "throw"}
Returned == {n \in DOMAIN cb : cb[n].t = "return" /\ cb[n].v # UNDEF}
TimedOut == {n \in DOMAIN task : task[n] = "timedout"}
StoppedByReturn == options.breakOnReturn /\ Returned # {}
Completed == pc = "done" /\ result = Ok

(***************************************************************************)
(* C1: forEachParallel with concurrency k never has more than k callbacks  *)
(* started and not yet settled, in grouped and in preserveOrder mode,      *)
(* whatever the collection and however callbacks settle, fail or time out. *)
(***************************************************************************)
C1_InFlightWithinConcurrency ==
    engine = "forEachParallel" => Cardinality(InFlight) <= options.concurrency

(***************************************************************************)
(* C2: forEachChunkedAsync with concurrency c > 1 never has more than      *)
(* min(chunkSize, c) callbacks in flight inside a window.                  *)
(***************************************************************************)
C2_WindowInFlightBound ==
    (engine = "forEachChunkedAsync" /\ options.concurrency > 1)
        => Cardinality(InFlight) <= Min(options.chunkSize, options.concurrency)

(***************************************************************************)
(* C3 as stated: whenever an element's callback missed its deadline, the   *)
(* call (forEachAsync, forEachParallel) has failed with a timeout error,   *)
(* for either value of breakOnError.                                       *)
(***************************************************************************)
C3_TimeoutErrorAlways ==
    (pc = "done" /\ TimedOut # {}) => result.kind = "TimeoutError"

(***************************************************************************)
(* C3 as amended: a missed deadline always fails the call; the failure is  *)
(* the timeout error of a timed-out element, except that forEachParallel   *)
(* with breakOnError=true may already have rejected with an ordinary       *)
(* callback error that came first.  A timeout never ends in success.       *)
(***************************************************************************)
C3_TimeoutIsFatal ==
    /\ (pc = "done" /\ TimedOut # {}) =>
          \/ result.kind = "TimeoutError"
          \/ engine = "forEachParallel" /\ options.breakOnError
                /\ result.kind = "raw"
    /\ result.kind = "TimeoutError" =>
          \E n \in TimedOut : result.at = <<AtOfPos(n)>>

C3_Witness ==
    /\ engine = "forEachParallel" /\ ~options.breakOnError
    /\ pc = "done" /\ result.kind = "TimeoutError"
    /\ Failed # {} /\ TimedOut # {}

(***************************************************************************)
(* C4: forEach / forEachAsync with breakOnError=true: a callback failure   *)
(* ends the call at once with one ForEachError carrying the failing index  *)
(* (or key) and the original error; the failing element is the last one    *)
(* invoked, every element before it was invoked, in order, none after it.  *)
(***************************************************************************)
C4_BreakOnErrorAborts ==
    SeqEngine =>
      /\ (options.breakOnError /\ Failed # {}) =>
            pc = "done" /\ result.kind = "ForEachError"
      /\ result.kind = "ForEachError" =>
            /\ options.breakOnError
            /\ \E n \in Failed :
                 /\ Failed = {n}
                 /\ result = ForEachError(AtOfPos(n), cb[n].v)
                 /\ calls[Len(calls)].at = AtOfPos(n)
                 /\ \A e \in Elements : Rank(e) <= Rank(AtOfPos(n)) => e \in CalledAt
            /\ InOrder

C4_Witness ==
    /\ SeqEngine /\ result.kind = "ForEachError"
    /\ Len(calls) >= 2
    /\ Elements \ CalledAt # {}

(***************************************************************************)
(* C5: forEach / forEachAsync with breakOnError=false: a callback failure  *)
(* never fails the call; the remaining elements are still invoked in       *)
(* order, and the call completes.                                          *)
(***************************************************************************)
C5_ErrorsSwallowed ==
    (SeqEngine /\ ~options.breakOnError) =>
      /\ result.kind \in {"pending", "ok", "TimeoutError"}
      /\ InOrder
      /\ (pc = "done" /\ ~StoppedByReturn /\ TimedOut = {}) =>
            result = Ok /\ Elements \subseteq CalledAt

C5_Witness ==
    /\ SeqEngine /\ ~options.breakOnError /\ Completed
    /\ \E n \in Failed : \E k \in DOMAIN calls :
          Rank(calls[k].at) > Rank(AtOfPos(n))
    /\ Elements \subseteq CalledAt

C7_HolesSkipped ==
    (SeqEngine /\ isArray(target)) =>
        \A k \in DOMAIN calls : target.elems[calls[k].at + 1] # HOLE

(***************************************************************************)
(* C8: forEach / forEachAsync with breakOnReturn=true stop after the first *)
(* element whose callback returns a value other than undefined: it is the  *)
(* last one invoked and the call completes without error.  Without         *)
(* breakOnReturn a return value never stops the iteration.                 *)
(***************************************************************************)
C8_BreakOnReturn ==
    SeqEngine =>
      /\ StoppedByReturn =>
            /\ Completed
            /\ \E n \in Returned :
                 /\ Returned = {n}
                 /\ calls[Len(calls)].at = AtOfPos(n)
            /\ InOrder
      /\ (~options.breakOnReturn /\ Completed) => Elements \subseteq CalledAt

C8_Witness ==
    /\ SeqEngine /\ StoppedByReturn
    /\ Len(calls) >= 2
    /\ Elements \ CalledAt # {}

(***************************************************************************)
(* C9: on an object every engine invokes the callback only for own keys    *)
(* whose value is not undefined, with that value, never twice for a key,   *)
(* and for each such key once the call has completed without a break.      *)
(***************************************************************************)
C9_OwnDefinedKeysOnly ==
    ~isArray(target) =>
      /\ \A k \in DOMAIN calls :
           /\ calls[k].at \in OwnDefinedKeys
           /\ \E n \in DOMAIN target.props :
                /\ target.props[n].key = calls[k].at
                /\ target.props[n].val = calls[k].item
      /\ \A k, l \in DOMAIN calls : k # l => calls[k].at # calls[l].at
      /\ (Completed /\ ~StoppedByReturn) => CalledAt = OwnDefinedKeys

C9_Witness ==
    /\ ~isArray(target) /\ Completed
    /\ engine = "forEachParallel" /\ options.preserveOrder
    /\ \E n \in DOMAIN target.props : ~target.props[n].own
    /\ \E n \in DOMAIN target.props :
          target.props[n].own /\ target.props[n].val = UNDEF
    /\ Len(calls) = 1

(***************************************************************************)
(* C10: the chunked engines, when no callback fails, process exactly       *)
(* ceil(n/s) windows; window w covers the positions [w*s, min((w+1)*s, n)) *)
(* of the working view; onChunkComplete is invoked once per window, with   *)
(* indices 0, 1, 2, ... in order and with the number of elements of the    *)
(* window (s, but for a shorter last window) as count.                     *)
(***************************************************************************)
WindowCount == CHOOSE w \in 0..Len(Items) :
                  (w - 1) * options.chunkSize < Len(Items)
                  /\ Len(Items) <= w * options.chunkSize

WindowPositions(w) ==
    (w * options.chunkSize + 1)..Min((w + 1) * options.chunkSize, Len(Items))

WindowElements(w) == {p \in WindowPositions(w) : AtOfPos(p) \in Elements}

Dense == \A p \in 1..Len(Items) : AtOfPos(p) \in Elements

C11_CountsSurviveFailures ==
    (engine \in {"forEachChunked", "forEachChunkedAsync"}
        /\ ~options.breakOnError /\ options.hasOnChunkComplete) =>
      /\ Len(chunkLog) = chunkIndex
      /\ \A k \in DOMAIN chunkLog :
           /\ chunkLog[k][1] = k - 1
           /\ chunkLog[k][2] =
                Cardinality({p \in WindowPositions(k - 1) : cb[p].t = "return"})
      /\ pc = "done" => (result = Ok /\ Len(chunkLog) = WindowCount)

C11_Witness ==
    /\ engine = "forEachChunkedAsync" /\ ~options.breakOnError /\ Completed
    /\ \E k \in DOMAIN chunkLog :
          chunkLog[k][2] = 0 /\ WindowElements(k - 1) # {}
    /\ \E k \in DOMAIN chunkLog :
          chunkLog[k][2] > 0 /\ WindowPositions(k - 1) \cap Failed # {}

(***************************************************************************)
(* Lazy engine: forEachLazy and its stages.  `target` is the source the    *)
(* iterator was created on, `options` the lazy options; chain[1] is the    *)
(* root iterator (ArrayLazyIterator or ObjectLazyIterator), chain[k] wraps *)
(* chain[k - 1].  The field n of a stage is its counter: _currentIndex of  *)
(* the root, _taken of a take stage, _skipped of a skip stage.             *)
(***************************************************************************)
MaxStages == 2          \* stages composed on the root
MaxCount == 2           \* largest argument of take and skip
MaxGenerators == 2      \* generators created on one collection

LazyValues == {1, 2}
LazyArrays == UNION {[1..n -> LazyValues] : n \in 0..MaxLen}
\* the keys are own properties, but for one that may be inherited
LazyProps ==
    UNION {{[m \in 1..n |-> [key |-> Keys[m], own |-> m # inherited, val |-> m]] :
              inherited \in 0..n} : n \in 0..MaxLen}
LazyTargets ==
    {[kind |-> "array", elems |-> a, props |-> <<>>] : a \in LazyArrays}
    \cup {[kind |-> "object", elems |-> <<>>, props |-> p] : p \in LazyProps}

\* this._bufferSize = options.bufferSize || 10
DefaultBufferSize == 10
BufferSize ==
    IF options.bufferSize = 0 THEN DefaultBufferSize ELSE options.bufferSize

\* the caller's predicate p and transform f; an object's item is [key, value]
ItemValue(x) == IF isArray(target) THEN x ELSE x[2]
Predicate(x) == ItemValue(x) % 2 = 0
Transform(x) == IF isArray(target) THEN x + 1 ELSE <<x[1], x[2] + 1>>

\* new ArrayLazyIterator(array, options, reverse):
\*   this._currentIndex = reverse ? array.length - 1 : 0
ArrayLazyIterator ==
    [op |-> "array", arg |-> 0,
     n |-> IF options.reverse THEN Len(target.elems) - 1 ELSE 0]

\* new ObjectLazyIterator(object, options, reverse): this._currentIndex = 0
ObjectLazyIterator == [op |-> "object", arg |-> 0, n |-> 0]

\* _preloadBuffer(): the indices array.slice reads when the root is built
\*   forward: slice(start, min(length, start + bufferSize))
\*   reverse: slice(max(0, start - bufferSize), start + 1)
PreloadBuffer ==
    LET start == ArrayLazyIterator.n
        len == Len(target.elems)
    IN IF options.reverse
       THEN {x \in 0..(len - 1) :
                (IF start - BufferSize > 0 THEN start - BufferSize ELSE 0) <= x
                /\ x < start + 1}
       ELSE {x \in 0..(len - 1) : start <= x /\ x < Min(len, start + BufferSize)}

\* the iterator's state threaded through one next() call, and its result
LazyState == [chain |-> chain, reads |-> reads, evals |-> evals]
Done(st) == [st |-> st, done |-> TRUE, value |-> UNDEF]
Value(st, v) == [st |-> st, done |-> FALSE, value |-> v]
Bump(st, k, d) == [st EXCEPT !.chain[k].n = @ + d]

\* mutant: an exhausted root starts over from its first element
ArrayNext_Restarts(st) ==
    LET n == st.chain[1].n
        len == Len(target.elems)
    IN IF options.reverse
       THEN IF n < 0 THEN Done([st EXCEPT !.chain[1].n = len - 1])
            ELSE Value([Bump(st, 1, -1) EXCEPT !.reads = @ \cup {n}],
                       target.elems[n + 1])
       ELSE IF n >= len THEN Done([st EXCEPT !.chain[1].n = 0])
            ELSE Value([Bump(st, 1, 1) EXCEPT !.reads = @ \cup {n}],
                       target.elems[n + 1])

\* ArrayLazyIterator.next()
ArrayNext(st) ==
    LET n == st.chain[1].n
    IN IF options.reverse
       THEN IF n < 0 THEN Done(st)
            ELSE Value([Bump(st, 1, -1) EXCEPT !.reads = @ \cup {n}],
                       target.elems[n + 1])
       ELSE IF n >= Len(target.elems) THEN Done(st)
            ELSE Value([Bump(st, 1, 1) EXCEPT !.reads = @ \cup {n}],
                       target.elems[n + 1])

\* ObjectLazyIterator.next(): this._keys is Object.keys(object), reversed
\* when reverse is set
RECURSIVE ObjectNext(_)
ObjectNext(st) ==
    LET n == st.chain[1].n
    IN IF n >= Len(Items) THEN Done(st)
       ELSE LET key == Items[n + 1]
                st1 == Bump(st, 1, 1)
            IN IF hasOwnProperty(target, key)
               THEN Value([st1 EXCEPT !.reads = @ \cup {key}],
                          <<key, Get(target, key)>>)
               ELSE ObjectNext(st1)

RECURSIVE next(_, _), SkipNext(_, _), FilterNext(_, _)

\* mutant: the limit is tested with > in place of >=
TakeNext_OneMore(st, k) ==
    IF st.chain[k].n > st.chain[k].arg THEN Done(st)
    ELSE LET item == next(st, k - 1)
         IN IF item.done THEN item
            ELSE [item EXCEPT !.st = Bump(item.st, k, 1)]

\* mutant: at the limit the stage still pulls its source, then reports done
TakeNext_PullsAtLimit(st, k) ==
    IF st.chain[k].n >= st.chain[k].arg THEN Done(next(st, k - 1).st)
    ELSE LET item == next(st, k - 1)
         IN IF item.done THEN item
            ELSE [item EXCEPT !.st = Bump(item.st, k, 1)]

\* TakeLazyIterator.next()
TakeNext(st, k) ==
    IF st.chain[k].n >= st.chain[k].arg THEN Done(st)
    ELSE LET item == next(st, k - 1)
         IN IF item.done THEN item
            ELSE [item EXCEPT !.st = Bump(item.st, k, 1)]

\* mutant: the loop tests `_skipped <= _count`
SkipNext_Inclusive(st, k) ==
    IF st.chain[k].n <= st.chain[k].arg
    THEN LET item == next(st, k - 1)
         IN IF item.done THEN item
            ELSE SkipNext(Bump(item.st, k, 1), k)
    ELSE next(st, k - 1)

\* SkipLazyIterator.next()
SkipNext(st, k) ==
    IF st.chain[k].n < st.chain[k].arg
    THEN LET item == next(st, k - 1)
         IN IF item.done THEN item
            ELSE SkipNext(Bump(item.st, k, 1), k)
    ELSE next(st, k - 1)

\* FilterLazyIterator.next()
FilterNext(st, k) ==
    LET item == next(st, k - 1)
    IN IF item.done THEN item
       ELSE LET st1 == [item.st EXCEPT !.evals = @ + 1]
            IN IF Predicate(item.value) THEN Value(st1, item.value)
               ELSE FilterNext(st1, k)

\* MapLazyIterator.next()
MapNext(st, k) ==
    LET item == next(st, k - 1)
    IN IF item.done THEN Done(item.st)
       ELSE Value([item.st EXCEPT !.evals = @ + 1], Transform(item.value))

\* stage k's next(), by the class of the stage
next(st, k) ==
    CASE st.chain[k].op = "array" -> ArrayNext(st)
      [] st.chain[k].op = "object" -> ObjectNext(st)
      [] st.chain[k].op = "take" -> TakeNext(st, k)
      [] st.chain[k].op = "skip" -> SkipNext(st, k)
      [] st.chain[k].op = "filter" -> FilterNext(st, k)
      [] st.chain[k].op = "map" -> MapNext(st, k)

\* BaseLazyIterator.toArray(): pull until done, collecting the values
RECURSIVE Drain(_, _, _)
Drain(st, k, acc) ==
    LET item == next(st, k)
    IN IF item.done THEN [st |-> item.st, out |-> acc]
       ELSE Drain(item.st, k, Append(acc, item.value))

\* forEachLazy(target, options): the state right after the constructor
\* preloadNext defaults to true; only ArrayLazyIterator looks at it
LazyOptions ==
    {[reverse |-> rev, preloadNext |-> pre, bufferSize |-> 0] :
        rev \in BOOLEAN, pre \in BOOLEAN}

forEachLazy ==
    /\ engine = "forEachLazy"
    /\ target \in LazyTargets
    /\ options \in LazyOptions
    /\ ~isArray(target) => options.preloadNext
    /\ chain = <<IF isArray(target) THEN ArrayLazyIterator ELSE ObjectLazyIterator>>
    /\ reads = IF isArray(target) /\ options.preloadNext THEN PreloadBuffer ELSE {}
    /\ evals = 0
    /\ yielded = <<>>
    /\ exhausted = FALSE
    /\ gens = <<>>

\* no next() and no toArray() has been called yet: every call of either
\* produces a value or reports done
Untouched == yielded = <<>> /\ ~exhausted

\* BaseLazyIterator.take / skip / filter / map: a new stage over the last one
Compose(op, arg) ==
    /\ engine = "forEachLazy"
    /\ Untouched
    /\ Len(chain) <= MaxStages
    /\ chain' = Append(chain, [op |-> op, arg |-> arg, n |-> 0])
    /\ UNCHANGED <<registry, limiter, timers, delays, engine, target, options, pc, i, calls, cb, task, result,
                   permits, queue, microtasks, chunkIndex, processedInChunk,
                   chunkLog, reads, evals, yielded, exhausted, gens>>

take == \E count \in 0..MaxCount : Compose("take", count)
skip == \E count \in 0..MaxCount : Compose("skip", count)
filter == Compose("filter", 0)
map == Compose("map", 0)

\* the caller calls next() on the last stage
LazyNext ==
    /\ engine = "forEachLazy"
    /\ LET item == next(LazyState, Len(chain))
       IN /\ chain' = item.st.chain
          /\ reads' = item.st.reads
          /\ evals' = item.st.evals
          /\ yielded' = IF item.done THEN yielded ELSE Append(yielded, item.value)
          /\ exhausted' = (exhausted \/ item.done)
    /\ UNCHANGED <<registry, limiter, timers, delays, engine, target, options, pc, i, calls, cb, task, result,
                   permits, queue, microtasks, chunkIndex, processedInChunk,
                   chunkLog, gens>>

\* mutant: toArray starts over from the first element of the source
toArray_FromStart ==
    /\ engine = "forEachLazy"
    /\ ~exhausted
    /\ LET fresh == [LazyState EXCEPT !.chain =
                        [k \in DOMAIN chain |->
                            IF k = 1 THEN IF isArray(target) THEN ArrayLazyIterator
                                          ELSE ObjectLazyIterator
                            ELSE [chain[k] EXCEPT !.n = 0]]]
           all == Drain(fresh, Len(chain), <<>>)
       IN /\ chain' = all.st.chain
          /\ reads' = all.st.reads
          /\ evals' = all.st.evals
          /\ yielded' = yielded \o all.out
          /\ exhausted' = TRUE
    /\ UNCHANGED <<registry, limiter, timers, delays, engine, target, options, pc, i, calls, cb, task, result,
                   permits, queue, microtasks, chunkIndex, processedInChunk,
                   chunkLog, gens>>

\* the caller calls toArray() on the last stage (once, before it is exhausted)
toArray ==
    /\ engine = "forEachLazy"
    /\ ~exhausted
    /\ LET all == Drain(LazyState, Len(chain), <<>>)
       IN /\ chain' = all.st.chain
          /\ reads' = all.st.reads
          /\ evals' = all.st.evals
          /\ yielded' = yielded \o all.out
          /\ exhausted' = TRUE
    /\ UNCHANGED <<registry, limiter, timers, delays, engine, target, options, pc, i, calls, cb, task, result,
                   permits, queue, microtasks, chunkIndex, processedInChunk,
                   chunkLog, gens>>

InitLazy == forEachLazy /\ InitCommon /\ NoPlugins /\ NoLimiter /\ NoTimers /\ NoDelays

NextLazy ==
    \/ take
    \/ skip
    \/ filter
    \/ map
    \/ LazyNext
    \/ toArray

SpecLazy == InitLazy /\ [][NextLazy]_vars

(***************************************************************************)
(* forEachGenerator: every call makes a generator of its own.              *)
(***************************************************************************)
\* forEachGenerator(target, options): nothing runs before the first next()
forEachGenerator ==
    /\ engine = "forEachLazy"
    /\ Len(gens) < MaxGenerators
    /\ gens' = Append(gens, [n |-> 0, out |-> <<>>, done |-> FALSE])
    /\ UNCHANGED <<registry, limiter, timers, delays, engine, target, options, pc, i, calls, cb, task, result,
                   permits, queue, microtasks, chunkIndex, processedInChunk,
                   chunkLog, chain, reads, evals, yielded, exhausted>>

\* next() on generator g: `for (const item of items) yield item`, or
\* `for (const key of items) if (hasOwnProperty(target, key)) yield [key, value]`
GeneratorNext(g) ==
    /\ engine = "forEachLazy"
    /\ g \in DOMAIN gens
    /\ ~gens[g].done
    /\ LET n == gens[g].n
       IN gens' =
            IF n >= Len(Items) THEN [gens EXCEPT ![g].done = TRUE]
            ELSE [gens EXCEPT ![g].n = n + 1,
                              ![g].out = Append(@,
                                  IF isArray(target) THEN Items[n + 1]
                                  ELSE <<Items[n + 1], Get(target, Items[n + 1])>>)]
    /\ UNCHANGED <<registry, limiter, timers, delays, engine, target, options, pc, i, calls, cb, task, result,
                   permits, queue, microtasks, chunkIndex, processedInChunk,
                   chunkLog, chain, reads, evals, yielded, exhausted>>

NextIterators ==
    \/ LazyNext
    \/ toArray
    \/ forEachGenerator
    \/ \E g \in 1..MaxGenerators : GeneratorNext(g)

SpecIterators == InitLazy /\ [][NextIterators]_vars

(***************************************************************************)
(* Vocabulary of the lazy properties.                                      *)
(***************************************************************************)
\* what applying one stage eagerly to a whole sequence gives
EagerStage(stage, s) ==
    CASE stage.op = "filter" -> SelectSeq(s, Predicate)
      [] stage.op = "map" -> [n \in 1..Len(s) |-> Transform(s[n])]
      [] stage.op = "skip" -> SubSeq(s, stage.arg + 1, Len(s))
      [] stage.op = "take" -> SubSeq(s, 1, Min(stage.arg, Len(s)))

\* the sequence the root stands for: the array's elements (reversed when
\* reverse is set), or the object's own [key, value] pairs
RootSequence ==
    IF isArray(target) THEN Items
    ELSE [n \in 1..Len(Items) |-> <<Items[n], Get(target, Items[n])>>]

\* the stages of the chain applied eagerly, in order, up to stage k
RECURSIVE Eager(_)
Eager(k) == IF k = 1 THEN RootSequence ELSE EagerStage(chain[k], Eager(k - 1))

IsPrefix(s, t) == Len(s) <= Len(t) /\ s = SubSeq(t, 1, Len(s))

(***************************************************************************)
(* C12: as long as neither next() nor toArray() has been called, building  *)
(* forEachLazy(source) and composing filter, map, take and skip on it has  *)
(* evaluated neither the predicate nor the transform and has read no       *)
(* element of the source.                                                  *)
(***************************************************************************)
C12_ConstructionIsFree ==
    (engine = "forEachLazy" /\ Untouched) => (evals = 0 /\ reads = {})

(***************************************************************************)
(* C13: for every array and every chain of filter, map, skip and take, the *)
(* values the chain produces are, in order, those of the same stages       *)
(* applied eagerly to the whole array; once the chain is drained (by       *)
(* toArray or by pulling to the end) it has produced exactly that sequence.*)
(***************************************************************************)
C13_LazyEqualsEager ==
    (engine = "forEachLazy" /\ isArray(target)) =>
      /\ IsPrefix(yielded, Eager(Len(chain)))
      /\ exhausted => yielded = Eager(Len(chain))

C13_Witness ==
    /\ engine = "forEachLazy" /\ isArray(target)
    /\ exhausted
    /\ Len(chain) = 3 /\ chain[2].op = "filter" /\ chain[3].op = "map"
    /\ yielded # <<>> /\ Len(yielded) < Len(Items)

(***************************************************************************)
(* Option validation at the entry points of forEachParallel, forEachChunked*)
(* and forEachChunkedAsync.  options.given holds the option values as the  *)
(* caller passed them; a JavaScript value is a record with its type and,   *)
(* for an integer number, its value ("fraction" is a finite non-integer    *)
(* number such as 1.5).                                                    *)
(***************************************************************************)
\* validateAsyncOptions: `if (opts.concurrency > 1000)`
ConcurrencyLimit == 1000
\* validateChunkedOptions: `if (opts.chunkSize > 10000)`
ChunkSizeLimit == 10000

Undefined == [t |-> "undefined", v |-> 0]
Null == [t |-> "null", v |-> 0]
Number(n) == [t |-> "number", v |-> n]
NotANumber == [t |-> "NaN", v |-> 0]
Fraction == [t |-> "fraction", v |-> 1]
String == [t |-> "string", v |-> 0]

\* type-guards
isDefined(x) == x.t \notin {"undefined", "null"}
isNumber(x) == x.t \in {"number", "fraction"}
isPositiveInteger(x) == isNumber(x) /\ x.t = "number" /\ x.v > 0

ValidationError(field) == [kind |-> "ValidationError", at |-> <<field>>, error |-> UNDEF]
ChunkSizeError == [kind |-> "ForEachError", at |-> <<"chunkSize">>, error |-> "CHUNK_SIZE_ERROR"]

\* validateAsyncOptions(options): Ok, or the error it throws
validateAsyncOptions(given) ==
    IF isDefined(given.concurrency)
       /\ (~isPositiveInteger(given.concurrency)
           \/ given.concurrency.v > ConcurrencyLimit)
    THEN ValidationError("concurrency")
    ELSE Ok

\* validateChunkedOptions(options): Ok, or the error it throws
validateChunkedOptions(given) ==
    IF ~isPositiveInteger(given.chunkSize) \/ given.chunkSize.v > ChunkSizeLimit
    THEN ChunkSizeError
    ELSE Ok

\* `value > 1` as JavaScript evaluates it for the values above
GreaterThanOne(x) ==
    \/ x.t = "number" /\ x.v > 1
    \/ x.t = "fraction"

\* the values an option is given in a call
GivenConcurrency ==
    {Undefined, Null, NotANumber, Fraction, String}
    \cup {Number(n) : n \in {0 - 1, 0, 1, 2, ConcurrencyLimit, ConcurrencyLimit + 1}}
GivenChunkSize ==
    {Undefined, Null, NotANumber, Fraction, String}
    \cup {Number(n) : n \in {0 - 1, 0, 1, 2, ChunkSizeLimit, ChunkSizeLimit + 1}}

\* what the engines compute with: `const { concurrency = 10 } = options`,
\* `concurrency = 1`, `chunkSize` (0 stands for the default being used)
Destructured(given) ==
    [DefaultOptions EXCEPT
        !.concurrency = IF GreaterThanOne(given.concurrency)
                           \/ (engine = "forEachParallel"
                               /\ isPositiveInteger(given.concurrency))
                        THEN given.concurrency.v ELSE 0,
        !.chunkSize = IF isPositiveInteger(given.chunkSize)
                      THEN given.chunkSize.v ELSE 0]

\* collections whose elements are all present
PlainTargets ==
    {[kind |-> "array", elems |-> [m \in 1..n |-> "a"], props |-> <<>>] :
        n \in 0..MaxLen}
    \cup {[kind |-> "object", elems |-> <<>>,
           props |-> [m \in 1..n |-> [key |-> Keys[m], own |-> TRUE, val |-> "a"]]] :
        n \in 0..MaxLen}

\* forEachParallel: validateAsyncOptions, then the engine.  A null
\* concurrency passes (isDefined is false) and is not replaced by the
\* default (a destructuring default replaces undefined only): new
\* Semaphore(null) never grants a slot, createChunks(items, null) never
\* returns (i += null), so only a call with nothing to do settles
forEachParallel ==
    /\ engine = "forEachParallel"
    /\ pc = "validate"
    /\ LET verdict == validateAsyncOptions(options.given)
       IN IF verdict # Ok
          THEN pc' = "done" /\ result' = verdict
          ELSE IF options.given.concurrency = Null
          THEN IF (IF options.preserveOrder THEN Admitted = {} ELSE Length = 0)
               THEN pc' = "done" /\ result' = Ok
               ELSE pc' = "stuck" /\ UNCHANGED result
          ELSE pc' = "loop" /\ UNCHANGED result
    /\ UNCHANGED <<others, delays, engine, target, options, i, calls, cb, task, permits,
                   queue, microtasks, chunkIndex, processedInChunk, chunkLog>>

\* forEachChunked / forEachChunkedAsync: validateChunkedOptions, then the
\* engine; the concurrency option is not looked at
ValidateChunked ==
    /\ pc = "validate"
    /\ LET verdict == validateChunkedOptions(options.given)
       IN IF verdict # Ok
          THEN pc' = "done" /\ result' = verdict
          ELSE pc' = "loop" /\ UNCHANGED result
    /\ UNCHANGED <<others, delays, engine, target, options, i, calls, cb, task, permits,
                   queue, microtasks, chunkIndex, processedInChunk, chunkLog>>

forEachChunked == engine = "forEachChunked" /\ ValidateChunked

forEachChunkedAsync == engine = "forEachChunkedAsync" /\ ValidateChunked

InitValidate ==
    /\ engine \in {"forEachParallel", "forEachChunked", "forEachChunkedAsync"}
    /\ target \in PlainTargets
    /\ \E c \in GivenConcurrency, cs \in GivenChunkSize, po \in BOOLEAN :
        /\ engine = "forEachParallel" => cs = Undefined
        /\ engine = "forEachChunked" => c = Undefined
        /\ engine = "forEachChunkedAsync" => c # Fraction
        /\ engine # "forEachParallel" => ~po
        /\ LET given == [concurrency |-> c, chunkSize |-> cs]
           IN options = [k \in DOMAIN DefaultOptions \cup {"given"} |->
                           IF k = "given" THEN given
                           ELSE IF k = "preserveOrder" THEN po
                           ELSE IF k = "hasOnChunkComplete" THEN TRUE
                           ELSE Destructured(given)[k]]
    /\ pc = "validate"
    /\ i = 0
    /\ calls = <<>>
    /\ cb = [n \in 1..Length |-> None]
    /\ task = [n \in 1..Length |-> "new"]
    /\ result = Unsettled
    /\ permits = 0
    /\ queue = <<>>
    /\ microtasks = <<>>
    /\ chunkIndex = 0
    /\ processedInChunk = 0
    /\ chunkLog = <<>>
    /\ NoIterators
    /\ NoPlugins
    /\ NoLimiter
    /\ NoTimers
    /\ NoDelays

NextValidate ==
    \/ forEachParallel
    \/ forEachChunked
    \/ forEachChunkedAsync
    \/ LoopExit
    \/ forEachArrayParallel
    \/ forEachObjectParallel
    \/ NextChunk

SpecValidate == InitValidate /\ [][NextValidate]_vars

(***************************************************************************)
(* Vocabulary of the validation properties.                                *)
(***************************************************************************)
\* the documented range of concurrency and of chunkSize
ValidConcurrency(x) == x.t = "number" /\ x.v >= 1 /\ x.v <= ConcurrencyLimit
ValidChunkSize(x) == x.t = "number" /\ x.v >= 1 /\ x.v <= ChunkSizeLimit

\* the call has failed with a configuration error before doing anything
RejectedUpFront ==
    /\ pc = "done"
    /\ result.kind \in {"ValidationError", "ForEachError"}
    /\ calls = <<>>
    /\ chunkLog = <<>>

(***************************************************************************)
(* C14: forEachParallel given a concurrency that is not a positive integer *)
(* up to 1000, and forEachChunked / forEachChunkedAsync given a chunkSize  *)
(* that is not a positive integer up to 10000, fail with a configuration   *)
(* error, and neither the callback nor onChunkComplete is ever invoked.    *)
(***************************************************************************)
C14_InvalidSizesRejected ==
    (pc # "validate" /\
       \/ engine = "forEachParallel"
            /\ options.given.concurrency # Undefined
            /\ ~ValidConcurrency(options.given.concurrency)
       \/ engine \in {"forEachChunked", "forEachChunkedAsync"}
            /\ ~ValidChunkSize(options.given.chunkSize))
      => RejectedUpFront

(***************************************************************************)
(* C15: forEachChunkedAsync given a valid chunkSize and a concurrency that *)
(* is not a positive integer up to 1000 fails with a configuration error   *)
(* before any element is processed: the callback is never invoked.         *)
(***************************************************************************)
C15_ChunkedConcurrencyRejected ==
    (pc # "validate" /\ engine = "forEachChunkedAsync"
        /\ ValidChunkSize(options.given.chunkSize)
        /\ options.given.concurrency # Undefined
        /\ ~ValidConcurrency(options.given.concurrency))
      => RejectedUpFront


(***************************************************************************)
(* C16: forEachParallel with breakOnError=false and no timeout, in grouped *)
(* and in preserveOrder mode: a callback failure is discarded; the call    *)
(* never fails, no element is invoked twice, only elements are invoked,    *)
(* the call always has a step left until it has resolved, and when it has  *)
(* resolved every element of the collection has been invoked once.         *)
(***************************************************************************)
Lenient == engine = "forEachParallel" /\ ~options.breakOnError /\ options.timeout = 0

C16_FailuresDiscarded ==
    Lenient =>
      /\ result.kind \in {"pending", "ok"}
      /\ \A k, l \in DOMAIN calls : k # l => calls[k].at # calls[l].at
      /\ CalledAt \subseteq Elements
      /\ pc # "done" => ENABLED (LoopExit \/ forEachArrayParallel \/ forEachObjectParallel)
      /\ pc = "done" => result = Ok /\ CalledAt = Elements

C16_Witness ==
    /\ Lenient /\ options.preserveOrder /\ Completed
    /\ Failed # {}
    /\ Len(calls) >= 3
    /\ \E n \in Failed : \E k \in DOMAIN calls :
          Rank(calls[k].at) > Rank(AtOfPos(n))


(***************************************************************************)
(* C17: forEachParallel with breakOnError=true, in grouped and in          *)
(* preserveOrder mode: a callback failure makes the call reject with that  *)
(* failure, and once the call has rejected with it no callback is started  *)
(* any more (the callbacks in flight are left to finish).                  *)
(***************************************************************************)
Strict == engine = "forEachParallel" /\ options.breakOnError

RejectedByCallback == pc = "done" /\ result.kind = "raw"

C17_FailureAbortsIteration ==
    [][Strict =>
         /\ (pc' = "done" /\ Failed' # {}) => result'.kind \in {"raw", "TimeoutError"}
         /\ result'.kind = "raw" => \E n \in Failed' : result' = Raw(cb'[n].v)
         /\ RejectedByCallback => calls' = calls]_vars


(***************************************************************************)
(* C18: a lazy stage never revives.  Once next() on the last stage of a    *)
(* chain (the root array or object iterator, or a take, skip, filter or    *)
(* map stage over it) has returned done, every later next() on it returns  *)
(* done again and yields nothing.                                          *)
(***************************************************************************)
C18_ExhaustionIsFinal ==
    (engine = "forEachLazy" /\ exhausted) =>
        LET item == next(LazyState, Len(chain))
        IN item.done /\ item.st.chain = chain

C18_Witness ==
    /\ engine = "forEachLazy" /\ exhausted
    /\ ~options.reverse
    /\ Len(chain) = 3 /\ chain[2].op = "take" /\ chain[3].op = "filter"
    /\ chain[1].n < Len(Items)
    /\ yielded # <<>>
    /\ next(LazyState, Len(chain)).done


(***************************************************************************)
(* C19: the root iterator of forEachLazy(A) is not restartable: what       *)
(* next() and toArray() hand out, taken together, is the sequence of A     *)
(* without repeating or dropping an element, so toArray() after k calls of *)
(* next() returns the elements from position k on, and it leaves the       *)
(* iterator exhausted.  Every generator made by forEachGenerator(A) yields *)
(* the full sequence of A from its start, whatever the other generators    *)
(* and the lazy iterator have consumed.                                    *)
(***************************************************************************)
C19_RootResumesGeneratorsRestart ==
    (engine = "forEachLazy" /\ Len(chain) = 1) =>
      /\ IsPrefix(yielded, RootSequence)
      /\ exhausted => /\ yielded = RootSequence
                      /\ next(LazyState, 1).done
      /\ \A g \in DOMAIN gens :
            /\ gens[g].out = SubSeq(RootSequence, 1, gens[g].n)
            /\ gens[g].done => gens[g].out = RootSequence

C19_Witness ==
    /\ engine = "forEachLazy" /\ Len(chain) = 1
    /\ exhausted /\ Len(yielded) >= 2
    /\ Len(gens) = 2
    /\ gens[1].done /\ gens[1].out = yielded
    /\ ~gens[2].done /\ Len(gens[2].out) = 1


(***************************************************************************)
(* PluginManager: the registry of plugins and the execute* calls that run  *)
(* the hooks.  plugins[name] is the PluginImpl registered under the name   *)
(* (with the hooks its plugin defines), executionOrder the list of names   *)
(* the execute* loops walk.  An execute* call runs up to its next `await`  *)
(* in one step; the registry may be changed while it waits.                *)
(***************************************************************************)
Hooks == {"beforeIteration", "afterIteration", "onError"}

\* the plugin objects handed to register: every hook or none, and one
\* without a name
PluginObjects ==
    {[name |-> nm, hooks |-> h] : nm \in PluginNames \cup {""}, h \in {Hooks, {}}}

\* IPluginConfig: autoEnable (undefined or false) and allowOverride
PluginConfigs ==
    {[autoEnable |-> a, allowOverride |-> o] :
        a \in {UNDEF, "false"}, o \in BOOLEAN}

PluginError(pluginName, hook) ==
    [kind |-> "PluginError", at |-> <<pluginName>>, error |-> hook]

\* validatePlugin(plugin): `!p.name` rejects the plugin without a name
validatePlugin(plugin) ==
    IF plugin.name = "" THEN ValidationError("name") ELSE Ok

\* new PluginImpl(plugin, config): this._enabled = config.autoEnable ?? true
PluginImpl(plugin, config) ==
    [registered |-> TRUE,
     enabled |-> IF config.autoEnable = UNDEF THEN TRUE
                 ELSE config.autoEnable = "true",
     hooks |-> plugin.hooks]

\* this._plugins.has(name)
Has(name) == plugins[name].registered

\* mutant: the order list is never found to hold the name
Includes_Never(s, x) == FALSE

\* Array.prototype.includes / indexOf / splice on _executionOrder
Includes(s, x) == \E n \in DOMAIN s : s[n] = x
Without(s, x) ==
    LET at == CHOOSE n \in DOMAIN s : s[n] = x /\ \A m \in 1..(n - 1) : s[m] # x
    IN SubSeq(s, 1, at - 1) \o SubSeq(s, at + 1, Len(s))

\* a registry operation leaves an execute* call that is waiting alone (the
\* call sees the change when it resumes); the record of a call that has
\* ended is dropped
RegistryOp ==
    /\ engine = "PluginManager"
    /\ IF exec.status = "awaiting"
       THEN /\ disturbed' = TRUE
            /\ UNCHANGED <<exec, hookLog>>
       ELSE /\ disturbed' = FALSE
            /\ exec' = NoExecution
            /\ hookLog' = <<>>

\* the operation throws err, or returns when err is Ok
Throws(err) == raised' = IF exec.status = "awaiting" THEN Ok ELSE err

Iteration ==
    <<engine, target, options, pc, i, calls, cb, task, result, permits, queue,
      microtasks, chunkIndex, processedInChunk, chunkLog,
      chain, reads, evals, yielded, exhausted, gens, limiter, timers, delays>>

\* mutant: a second registration under a name is never refused
Duplicate_Never(plugin, config) == FALSE

\* if (this._plugins.has(plugin.name) && !config?.allowOverride)
Duplicate(plugin, config) == Has(plugin.name) /\ ~config.allowOverride

\* PluginManager.register(plugin, config)
Register(plugin, config) ==
    /\ RegistryOp
    /\ IF validatePlugin(plugin) # Ok
       THEN /\ Throws(validatePlugin(plugin))
            /\ UNCHANGED <<plugins, executionOrder>>
       ELSE IF Duplicate(plugin, config)
       THEN /\ Throws(PluginError(plugin.name, "register"))
            /\ UNCHANGED <<plugins, executionOrder>>
       ELSE /\ plugins' = [plugins EXCEPT ![plugin.name] = PluginImpl(plugin, config)]
            /\ executionOrder' =
                  IF Includes(executionOrder, plugin.name) THEN executionOrder
                  ELSE Append(executionOrder, plugin.name)
            /\ Throws(Ok)
    /\ UNCHANGED Iteration

register == \E plugin \in PluginObjects, config \in PluginConfigs : Register(plugin, config)

\* PluginManager.unregister(pluginName): false when there is no such plugin
unregister ==
    /\ RegistryOp
    /\ \E pluginName \in PluginNames :
         /\ plugins' = [plugins EXCEPT ![pluginName] = NotRegistered]
         /\ executionOrder' =
               IF Has(pluginName) /\ Includes(executionOrder, pluginName)
               THEN Without(executionOrder, pluginName) ELSE executionOrder
    /\ Throws(Ok)
    /\ UNCHANGED Iteration

\* PluginManager.enable / disable(pluginName)
SetEnabled(flag) ==
    /\ RegistryOp
    /\ \E pluginName \in PluginNames :
         IF ~Has(pluginName)
         THEN /\ Throws(PluginError(pluginName, "not found"))
              /\ UNCHANGED plugins
         ELSE /\ plugins' = [plugins EXCEPT ![pluginName].enabled = flag]
              /\ Throws(Ok)
    /\ UNCHANGED executionOrder
    /\ UNCHANGED Iteration

enable == SetEnabled(TRUE)
disable == SetEnabled(FALSE)

\* PluginManager.clear()
clear ==
    /\ RegistryOp
    /\ plugins' = [name \in PluginNames |-> NotRegistered]
    /\ executionOrder' = <<>>
    /\ Throws(Ok)
    /\ UNCHANGED Iteration

\* PluginImpl.beforeIteration / afterIteration / onError: the plugin's hook
\* is called when the plugin is enabled and defines it
Invokes(name, hook) == plugins[name].enabled /\ hook \in plugins[name].hooks

RECURSIVE RunLoop_StopsAtDisabled(_, _)
\* mutant: a plugin that is not enabled ends the loop
RunLoop_StopsAtDisabled(hook, at) ==
    IF at >= Len(executionOrder)
    THEN [NoExecution EXCEPT !.status = "done", !.hook = hook, !.idx = at]
    ELSE LET name == executionOrder[at + 1]
         IN IF Has(name) /\ plugins[name].enabled
            THEN [status |-> "awaiting", hook |-> hook, idx |-> at, name |-> name,
                  invoked |-> Invokes(name, hook), error |-> Ok]
            ELSE [NoExecution EXCEPT !.status = "done", !.hook = hook, !.idx = at]

RECURSIVE RunLoop(_, _)
\* for (const pluginName of this._executionOrder), from the list's position
\* `at` up to the next await or to the end of the list
\*   if (plugin && plugin.enabled) { await plugin.<hook>(...) }
RunLoop(hook, at) ==
    IF at >= Len(executionOrder)
    THEN [NoExecution EXCEPT !.status = "done", !.hook = hook, !.idx = at]
    ELSE LET name == executionOrder[at + 1]
         IN IF Has(name) /\ plugins[name].enabled
            THEN [status |-> "awaiting", hook |-> hook, idx |-> at, name |-> name,
                  invoked |-> Invokes(name, hook), error |-> Ok]
            ELSE RunLoop(hook, at + 1)

Logged(log, e) == IF e.status = "awaiting" /\ e.invoked THEN Append(log, e.name) ELSE log

\* the call of execute<Hook>: the loop runs to its first await
ExecuteCall(hook) ==
    /\ engine = "PluginManager"
    /\ exec.status # "awaiting"
    /\ exec' = RunLoop(hook, 0)
    /\ hookLog' = Logged(<<>>, exec')
    /\ disturbed' = FALSE
    /\ raised' = Ok
    /\ UNCHANGED <<plugins, executionOrder>>
    /\ UNCHANGED Iteration

\* the awaited hook settles: a rejection (or a throw) is wrapped in a
\* PluginError that ends the call, a fulfilment lets the loop go on
ExecuteResume(hook) ==
    /\ engine = "PluginManager"
    /\ exec.status = "awaiting" /\ exec.hook = hook
    /\ \/ /\ exec.invoked
          /\ exec' = [exec EXCEPT !.status = "failed",
                                  !.error = PluginError(exec.name, hook)]
          /\ UNCHANGED hookLog
       \/ /\ exec' = RunLoop(hook, exec.idx + 1)
          /\ hookLog' = Logged(hookLog, exec')
    /\ UNCHANGED <<plugins, executionOrder, disturbed, raised>>
    /\ UNCHANGED Iteration

executeBeforeIteration ==
    ExecuteCall("beforeIteration") \/ ExecuteResume("beforeIteration")
executeAfterIteration ==
    ExecuteCall("afterIteration") \/ ExecuteResume("afterIteration")
executeOnError ==
    ExecuteCall("onError") \/ ExecuteResume("onError")

\* new PluginManager()
InitPlugins ==
    /\ engine = "PluginManager"
    /\ target = [kind |-> "array", elems |-> <<>>, props |-> <<>>]
    /\ options = DefaultOptions
    /\ InitCommon
    /\ NoIterators
    /\ NoPlugins
    /\ NoLimiter
    /\ NoTimers
    /\ NoDelays

NextPlugins ==
    \/ register
    \/ unregister
    \/ enable
    \/ disable
    \/ clear
    \/ executeBeforeIteration
    \/ executeAfterIteration
    \/ executeOnError

SpecPlugins == InitPlugins /\ [][NextPlugins]_vars

(***************************************************************************)
(* C20: executeBeforeIteration, executeAfterIteration and executeOnError   *)
(* invoke the corresponding hook of the enabled plugins one at a time, in  *)
(* registration order, and never the hook of a disabled plugin; when a     *)
(* hook throws, the call fails with a PluginError that names that plugin   *)
(* and the hooks of the plugins registered after it are not invoked.       *)
(* (Stated for calls during which the registry is not changed.)            *)
(***************************************************************************)
\* the plugins among the first n of the list whose hook is to be invoked
ToInvoke(hook, n) ==
    SelectSeq(SubSeq(executionOrder, 1, n),
              LAMBDA name : Has(name) /\ Invokes(name, hook))

C20_HooksInRegistrationOrder ==
    (engine = "PluginManager" /\ ~disturbed) =>
      /\ exec.status = "awaiting" =>
            /\ hookLog = ToInvoke(exec.hook, exec.idx + 1)
            /\ exec.name = executionOrder[exec.idx + 1]
      /\ exec.status = "done" =>
            hookLog = ToInvoke(exec.hook, Len(executionOrder))
      /\ exec.status = "failed" =>
            /\ hookLog = ToInvoke(exec.hook, exec.idx + 1)
            /\ hookLog # <<>> /\ hookLog[Len(hookLog)] = exec.name
            /\ exec.error = PluginError(exec.name, exec.hook)

C20_Witness ==
    /\ engine = "PluginManager" /\ ~disturbed
    /\ exec.status = "failed" /\ exec.hook = "onError"
    /\ Len(executionOrder) = 3
    /\ ~plugins[executionOrder[1]].enabled
    /\ exec.name = executionOrder[2] /\ hookLog = <<exec.name>>
    /\ Invokes(executionOrder[3], "onError")


(***************************************************************************)
(* The registry alone: register, unregister, enable, disable and clear on  *)
(* a PluginManager, with no execute* call.                                 *)
(***************************************************************************)
NextRegistry ==
    \/ register
    \/ unregister
    \/ enable
    \/ disable
    \/ clear

SpecRegistry == InitPlugins /\ [][NextRegistry]_vars

(***************************************************************************)
(* C21: register under a name that is already registered throws a          *)
(* PluginError and leaves the registered plugin, its enabled state and the *)
(* execution order as they were, unless allowOverride is given: then the   *)
(* plugin under that name is replaced by the new one (enabled as its       *)
(* config says), at the place the name already has in the order, and       *)
(* nothing is thrown.                                                      *)
(***************************************************************************)
C21_DuplicateRegistration ==
    [][\A plugin \in PluginObjects, config \in PluginConfigs :
         (Register(plugin, config) /\ plugin.name # "" /\ Has(plugin.name)) =>
            IF config.allowOverride
            THEN /\ raised' = Ok
                 /\ plugins' = [plugins EXCEPT ![plugin.name] =
                       [registered |-> TRUE,
                        enabled |-> config.autoEnable # "false",
                        hooks |-> plugin.hooks]]
                 /\ executionOrder' = executionOrder
            ELSE /\ raised'.kind = "PluginError"
                 /\ raised'.at = <<plugin.name>>
                 /\ plugins' = plugins
                 /\ executionOrder' = executionOrder]_vars

\* a refused registration of a plugin that is registered, disabled and not
\* the first of the order
C21_Witness ==
    /\ engine = "PluginManager"
    /\ raised.kind = "PluginError" /\ raised.error = "register"
    /\ Len(executionOrder) = 3
    /\ raised.at = <<executionOrder[2]>>
    /\ ~plugins[executionOrder[2]].enabled
    /\ plugins[executionOrder[2]].hooks # {}


(***************************************************************************)
(* Every engine and the lazy iterator on collections of at most one        *)
(* element.                                                                *)
(***************************************************************************)
InitSmall ==
    /\ Init \/ InitLazy
    /\ Len(target.elems) <= 1
    /\ Len(target.props) <= 1

NextSmall == Next \/ NextLazy

SpecSmall == InitSmall /\ [][NextSmall]_vars

(***************************************************************************)
(* C22: on an empty array or an empty map every engine (forEach,           *)
(* forEachAsync, forEachParallel, forEachChunked, forEachChunkedAsync)     *)
(* invokes the callback zero times and completes successfully, the chunked *)
(* engines invoke onChunkComplete zero times, and the iterator of          *)
(* forEachLazy reports done on its first pull, whatever stages are         *)
(* composed on it, without evaluating a predicate or a transform.          *)
(***************************************************************************)
Empty == Len(target.elems) = 0 /\ Len(target.props) = 0

C22_EmptyInput ==
    Empty =>
      /\ calls = <<>>
      /\ chunkLog = <<>>
      /\ engine # "forEachLazy" =>
            /\ result \in {Unsettled, Ok}
            /\ pc = "done" => result = Ok
            /\ pc # "done" => ENABLED Next
      /\ engine = "forEachLazy" =>
            /\ next(LazyState, Len(chain)).done
            /\ yielded = <<>>
            /\ evals = 0

C22_Witness ==
    /\ Empty /\ ~isArray(target)
    /\ engine = "forEachChunkedAsync" /\ options.hasOnChunkComplete
    /\ options.concurrency > 1
    /\ Completed


(***************************************************************************)
(* The Semaphore on its own: clients call acquire(), run when the promise  *)
(* of their token is resolved (a microtask), and call the token's release  *)
(* function once.  options.concurrency is the capacity it was built with;  *)
(* task[n] is where client n stands.                                       *)
(***************************************************************************)
MaxClients == 4

\* the clients a step of the semaphore has resolved a token for
NewlyGranted(before, after) ==
    [k \in 1..(Len(after.microtasks) - Len(before.microtasks)) |->
        after.microtasks[Len(before.microtasks) + k].n]

SemaphoreRest ==
    <<engine, target, options, pc, i, calls, cb, result, chunkIndex,
      processedInChunk, chunkLog, chain, reads, evals, yielded, exhausted, gens,
      registry, timers, delays>>

\* client n calls semaphore.acquire()
SemaphoreAcquire(n) ==
    /\ engine = "Semaphore"
    /\ task[n] = "new"
    /\ LET s == Acquire(Sem, n)
       IN /\ permits' = s.permits
          /\ queue' = s.queue
          /\ microtasks' = s.microtasks
          /\ granted' = granted \o NewlyGranted(Sem, s)
    /\ asked' = Append(asked, n)
    /\ task' = [task EXCEPT ![n] = "waiting"]
    /\ UNCHANGED SemaphoreRest

\* the continuation of client n runs with its token
SemaphoreResume(n) ==
    /\ engine = "Semaphore"
    /\ microtasks # <<>> /\ Head(microtasks) = Microtask("start", n, Ok)
    /\ microtasks' = Tail(microtasks)
    /\ task' = [task EXCEPT ![n] = "holding"]
    /\ UNCHANGED <<permits, queue, asked, granted>>
    /\ UNCHANGED SemaphoreRest

\* client n calls its token's release function
SemaphoreRelease(n) ==
    /\ engine = "Semaphore"
    /\ task[n] = "holding"
    /\ LET s == Release(Sem)
       IN /\ permits' = s.permits
          /\ queue' = s.queue
          /\ microtasks' = s.microtasks
          /\ granted' = granted \o NewlyGranted(Sem, s)
    /\ task' = [task EXCEPT ![n] = "released"]
    /\ UNCHANGED asked
    /\ UNCHANGED SemaphoreRest

\* new Semaphore(permits)
InitSemaphore ==
    /\ engine = "Semaphore"
    /\ target = [kind |-> "array", elems |-> <<>>, props |-> <<>>]
    /\ \E c \in 1..MaxConcurrency :
         /\ options = [DefaultOptions EXCEPT !.concurrency = c]
         /\ permits = c
    /\ pc = "loop"
    /\ i = 0
    /\ calls = <<>>
    /\ cb = <<>>
    /\ task = [n \in 1..MaxClients |-> "new"]
    /\ result = Unsettled
    /\ queue = <<>>
    /\ microtasks = <<>>
    /\ chunkIndex = 0
    /\ processedInChunk = 0
    /\ chunkLog = <<>>
    /\ NoIterators
    /\ NoPlugins
    /\ NoLimiter
    /\ NoTimers
    /\ NoDelays

NextSemaphore ==
    \/ \E n \in 1..MaxClients : SemaphoreAcquire(n)
    \/ \E n \in 1..MaxClients : SemaphoreResume(n)
    \/ \E n \in 1..MaxClients : SemaphoreRelease(n)

SpecSemaphore == InitSemaphore /\ [][NextSemaphore]_vars

(***************************************************************************)
(* C23: a Semaphore of capacity c whose tokens are each released once: the *)
(* available permits stay within 0..c; at most c tokens are granted and    *)
(* not yet released (permits and outstanding tokens add up to c); tokens   *)
(* are granted in the order of the acquire calls; the queue holds the      *)
(* acquirers not yet granted, longest-waiting first, so a release with     *)
(* waiters queued hands its capacity to the longest-waiting one, also when *)
(* several releases happen before a resumed waiter runs.                   *)
(***************************************************************************)
Outstanding == {n \in Range(granted) : task[n] # "released"}

C23_SemaphoreFifo ==
    engine = "Semaphore" =>
      /\ permits \in 0..options.concurrency
      /\ Cardinality(Outstanding) <= options.concurrency
      /\ permits + Cardinality(Outstanding) = options.concurrency
      /\ IsPrefix(granted, asked)
      /\ queue = SubSeq(asked, Len(granted) + 1, Len(asked))
      /\ queue # <<>> => permits = 0

\* two releases have each resumed a queued waiter, and neither has run yet
C23_Witness ==
    /\ engine = "Semaphore" /\ options.concurrency = 2
    /\ Len(microtasks) = 2
    /\ Len(granted) = 4 /\ granted = asked
    /\ Cardinality({n \in 1..MaxClients : task[n] = "released"}) = 2
    /\ granted # <<1, 2, 3, 4>>


(***************************************************************************)
(* C24: in preserveOrder mode forEachParallel releases every token it      *)
(* acquired exactly once, also for the holes of an array and the           *)
(* undefined-valued keys of an object, so the permits of its semaphore     *)
(* never exceed the configured concurrency.                                *)
(***************************************************************************)
C24_PermitsWithinConcurrency ==
    (engine = "forEachParallel" /\ options.preserveOrder) => permits <= Concurrency


(***************************************************************************)
(* C25: forEachParallel in grouped mode (preserveOrder=false) splits the   *)
(* elements of the collection, in iteration order, into consecutive groups *)
(* of `concurrency` elements (the last group possibly shorter): the        *)
(* callbacks of a group are started together, no callback of a group is    *)
(* started before every element of the groups before it was started and    *)
(* has settled, and after a fatal failure in a group no callback of a      *)
(* later group is started.                                                 *)
(***************************************************************************)
Grouped == engine = "forEachParallel" /\ ~options.preserveOrder
Started == {p \in DOMAIN cb : cb[p] # None}
Eligible == {p \in 1..Length : AtOfPos(p) \in Elements}
ElementGroup(p) ==
    (Cardinality({q \in Eligible : q <= p}) - 1) \div Concurrency

C25_GroupsOfElements ==
    Grouped =>
      /\ \A q \in Started : \A p \in Eligible :
           /\ ElementGroup(p) = ElementGroup(q) => p \in Started
           /\ ElementGroup(p) < ElementGroup(q) => p \in Started /\ cb[p] # Pending
      /\ result.kind \in {"raw", "TimeoutError"} =>
           \E p \in Failed \cup TimedOut :
              \A q \in Started : ElementGroup(q) <= ElementGroup(p)

\* what the engine does keep: the same barrier over the groups createChunks
\* cuts, which are groups of positions of the working view (the indices of
\* the array, holes included; the own keys, undefined-valued ones included)
Group(p) == (p - 1) \div Concurrency

GroupsOfPositions ==
    Grouped =>
      /\ InOrder
      /\ \A q \in Started :
           /\ Group(q) <= i \div Concurrency
           /\ \A p \in 1..Length :
                /\ Group(p) = Group(q) => (AtOfPos(p) \in Elements => p \in Started)
                /\ Group(p) < Group(q) =>
                     /\ AtOfPos(p) \in Elements => p \in Started
                     /\ cb[p] # Pending
      /\ result.kind \in {"raw", "TimeoutError"} =>
           \E p \in Failed \cup TimedOut : Group(p) = i \div Concurrency

(***************************************************************************)
(* C26: forEachParallel with preserveOrder=true starts the callbacks in    *)
(* the enumeration order of the (possibly reversed) collection, whatever   *)
(* the order in which they complete: the invocations follow the iteration  *)
(* order, and a callback is started only when the callback of every        *)
(* element before it has been started.                                     *)
(***************************************************************************)
Ordered == engine = "forEachParallel" /\ options.preserveOrder

C26_StartedInEnumerationOrder ==
    Ordered =>
      /\ InOrder
      /\ \A q \in Started : \A p \in Eligible : p < q => p \in Started

\* the second callback has completed, the first has not, and the third
\* was started after the second completed
C26_Witness ==
    /\ Ordered /\ Concurrency = 2 /\ Length = 3
    /\ Started = {1, 2, 3}
    /\ cb[1] = Pending /\ cb[2] # Pending

(***************************************************************************)
(* C27: when the promise of forEachParallel is fulfilled, in either mode,  *)
(* the callback of every eligible element has been invoked exactly once    *)
(* and every callback that was started has already settled.                *)
(***************************************************************************)
C27_FulfilledMeansAllSettled ==
    (engine = "forEachParallel" /\ Completed) =>
      /\ CalledAt = Elements
      /\ Len(calls) = Cardinality(Elements)
      /\ Started = Eligible
      /\ \A n \in Started : cb[n] # Pending

\* three elements, two at a time, one of them rejected and swallowed
C27_Witness ==
    /\ engine = "forEachParallel" /\ Completed
    /\ Cardinality(Elements) = 3 /\ Concurrency = 2
    /\ Failed # {}

(***************************************************************************)
(* withTimeout on its own.  Each call n has the promise it was given       *)
(* (cb[n]), its timer (timeoutId), the promise of Promise.race and the     *)
(* settlements of the promise withTimeout returns.  Reactions run as       *)
(* microtasks in FIFO order; a timer fires only between macrotasks, when   *)
(* no microtask is left.                                                   *)
(***************************************************************************)
MaxRaces == 2

Settlements == {"fulfilled", "rejected"}

\* the outcome carried by a reaction, as the rejection field of a microtask
Carried(o) == [kind |-> o]

\* mutant: the timer is left as it is
clearTimeout_Never(timeoutId) == timeoutId

\* clearTimeout(timeoutId): an armed timer is cancelled, a fired one is gone
clearTimeout(timeoutId) ==
    IF timeoutId = "armed" THEN "cleared" ELSE timeoutId

NotCalled ==
    [timeoutId |-> "unset", promise |-> "none", race |-> "pending",
     first |-> "none", settled |-> <<>>]

TimerRest ==
    <<engine, target, options, pc, i, calls, cb, task, result, permits, queue,
      chunkIndex, processedInChunk, chunkLog, chain, reads, evals, yielded,
      exhausted, gens, registry, limiter, delays>>

\* withTimeout(promise, timeout, context) is called and runs up to its await:
\* setTimeout arms the timer, Promise.race subscribes to both promises (a
\* promise that is settled already gets its reaction queued at once)
withTimeout(n, promise) ==
    /\ engine = "withTimeout"
    /\ timers[n] = NotCalled
    /\ timers' = [timers EXCEPT ![n] =
                     [timeoutId |-> "armed", promise |-> promise, race |-> "pending",
                      first |-> IF promise = "pending" THEN "none" ELSE promise,
                      settled |-> <<>>]]
    /\ microtasks' = IF promise = "pending" THEN microtasks
                     ELSE Append(microtasks, Microtask("race", n, Carried(promise)))
    /\ UNCHANGED TimerRest

\* the callback's promise settles, before or after the race is decided
PromiseSettles(n, outcome) ==
    /\ engine = "withTimeout"
    /\ timers[n].promise = "pending"
    /\ timers' = [timers EXCEPT ![n].promise = outcome,
                                ![n].first = IF @ = "none" THEN outcome ELSE @]
    /\ microtasks' = Append(microtasks, Microtask("race", n, Carried(outcome)))
    /\ UNCHANGED TimerRest

\* the deadline passes: the timer's callback rejects timeoutPromise
TimerFires(n) ==
    /\ engine = "withTimeout"
    /\ microtasks = <<>>
    /\ timers[n].timeoutId = "armed"
    /\ timers' = [timers EXCEPT ![n].timeoutId = "fired",
                                ![n].first = IF @ = "none" THEN "TimeoutError" ELSE @]
    /\ microtasks' = <<Microtask("race", n, Carried("TimeoutError"))>>
    /\ UNCHANGED TimerRest

\* a reaction of Promise.race runs: the first one settles the race and wakes
\* the await, a later one finds the race settled and does nothing
RaceReaction(n) ==
    /\ engine = "withTimeout"
    /\ microtasks # <<>>
    /\ Head(microtasks).op = "race" /\ Head(microtasks).n = n
    /\ LET outcome == Head(microtasks).err.kind
       IN IF timers[n].race = "pending"
          THEN /\ timers' = [timers EXCEPT ![n].race = outcome]
               /\ microtasks' = Append(Tail(microtasks),
                                       Microtask("resume", n, Carried(outcome)))
          ELSE /\ microtasks' = Tail(microtasks)
               /\ UNCHANGED timers
    /\ UNCHANGED TimerRest

\* the await resumes: `finally` clears the timer, then the promise that
\* withTimeout returned settles with the outcome of the race
RaceResume(n) ==
    /\ engine = "withTimeout"
    /\ microtasks # <<>>
    /\ Head(microtasks).op = "resume" /\ Head(microtasks).n = n
    /\ timers' = [timers EXCEPT
                     ![n].timeoutId = clearTimeout(@),
                     ![n].settled = Append(@, Head(microtasks).err.kind)]
    /\ microtasks' = Tail(microtasks)
    /\ UNCHANGED TimerRest

InitTimeout ==
    /\ engine = "withTimeout"
    /\ target = [kind |-> "array", elems |-> <<>>, props |-> <<>>]
    /\ options = [DefaultOptions EXCEPT !.timeout = 1]
    /\ pc = "loop"
    /\ i = 0
    /\ calls = <<>>
    /\ cb = <<>>
    /\ task = <<>>
    /\ result = Unsettled
    /\ permits = 0
    /\ queue = <<>>
    /\ microtasks = <<>>
    /\ chunkIndex = 0
    /\ processedInChunk = 0
    /\ chunkLog = <<>>
    /\ NoIterators
    /\ NoPlugins
    /\ NoLimiter
    /\ timers = [n \in 1..MaxRaces |-> NotCalled]
    /\ NoDelays

NextTimeout ==
    \/ \E n \in 1..MaxRaces, promise \in Settlements \cup {"pending"} : withTimeout(n, promise)
    \/ \E n \in 1..MaxRaces, outcome \in Settlements : PromiseSettles(n, outcome)
    \/ \E n \in 1..MaxRaces : TimerFires(n)
    \/ \E n \in 1..MaxRaces : RaceReaction(n)
    \/ \E n \in 1..MaxRaces : RaceResume(n)

SpecTimeout == InitTimeout /\ [][NextTimeout]_vars

(***************************************************************************)
(* C28: withTimeout settles exactly once, with the outcome of whichever of *)
(* the callback's promise and the deadline timer settles first; the later  *)
(* settlement of the loser changes nothing and is not reported; and on     *)
(* every exit path (callback fulfilled, callback rejected, deadline fired) *)
(* the timer is cleared, so that no timer is armed once withTimeout has    *)
(* settled.                                                                *)
(***************************************************************************)
C28_FirstSettlementWins ==
    engine = "withTimeout" =>
      \A n \in DOMAIN timers :
         /\ Len(timers[n].settled) <= 1
         /\ timers[n].race # "pending" => timers[n].race = timers[n].first
         /\ timers[n].settled # <<>> =>
               /\ timers[n].settled = <<timers[n].first>>
               /\ timers[n].timeoutId # "armed"
               /\ timers[n].timeoutId = "fired" <=> timers[n].first = "TimeoutError"
         /\ (timers[n].settled = <<>> /\ timers[n].first # "none") => microtasks # <<>>

\* one call lost to its deadline and its callback settled afterwards, the
\* other call was won by its callback, and every reaction has run
C28_Witness ==
    /\ engine = "withTimeout" /\ microtasks = <<>>
    /\ timers[1].settled = <<"TimeoutError">> /\ timers[1].promise = "rejected"
    /\ timers[2].settled = <<"fulfilled">> /\ timers[2].timeoutId = "cleared"

(***************************************************************************)
(* C29: in forEachAsync at most one callback is in flight at any time: the *)
(* callback of element N+1 is started only after the callback of element N *)
(* has settled (fulfilled, or rejected and swallowed), however long each   *)
(* callback takes; and after a timeout or a breakOnError failure at        *)
(* element N the callback of no later element is started.                  *)
(***************************************************************************)

C29_OneAtATime ==
    engine = "forEachAsync" =>
      /\ InOrder
      /\ Cardinality(InFlight) <= 1
      /\ \A q \in Started : \A p \in Eligible :
           p < q => p \in Started /\ cb[p] # Pending /\ p \notin TimedOut
      /\ result.kind \in {"ForEachError", "TimeoutError"} =>
           /\ pc = "done"
           /\ i + 1 \in Started
           /\ i + 1 \in Failed \cup TimedOut
           /\ \A q \in Started : q <= i + 1
           /\ ~ENABLED (forEachArrayAsync \/ forEachObjectAsync)

\* the first callback rejected and was swallowed, the second was fulfilled,
\* the third is running
C29_Witness ==
    /\ engine = "forEachAsync" /\ Length = 3
    /\ cb[1].t = "throw" /\ cb[2].t = "return" /\ cb[3] = Pending

\* the deadline passed at the second element: the third is never started
C29_WitnessTimeout ==
    /\ engine = "forEachAsync" /\ Length = 3 /\ Eligible = {1, 2, 3}
    /\ result.kind = "TimeoutError" /\ TimedOut = {2}
    /\ cb[3] = None

(***************************************************************************)
(* C30: the chunked engine processes its windows strictly one at a time    *)
(* and in index order, also with concurrency > 1: no callback of window    *)
(* w+1 is started before every callback of window w has settled and        *)
(* onChunkComplete(w, ...) has been invoked, and onChunkComplete of window *)
(* w is invoked only after all callbacks of window w have settled.         *)
(***************************************************************************)
Window(p) == (p - 1) \div options.chunkSize
Reported == {chunkLog[k][1] : k \in DOMAIN chunkLog}
Through(p) == (p \in Eligible => p \in Started) /\ cb[p] # Pending

C30_WindowsOneAtATime ==
    engine \in {"forEachChunked", "forEachChunkedAsync"} =>
      /\ InOrder
      /\ \A q \in Started :
           /\ Window(q) <= chunkIndex
           /\ \A p \in 1..Length :
                Window(p) < Window(q) =>
                   /\ Through(p)
                   /\ options.hasOnChunkComplete => Window(p) \in Reported
      /\ \A k \in DOMAIN chunkLog :
           /\ chunkLog[k][1] = k - 1
           /\ \A p \in 1..Length : Window(p) = k - 1 => Through(p)

\* windows of two, two at a time: the first window is reported, the
\* callback of the second window is running
C30_Witness ==
    /\ engine = "forEachChunkedAsync" /\ ChunkConcurrency = 2
    /\ options.chunkSize = 2 /\ Length = 3
    /\ chunkLog = <<<<0, 2>>>>
    /\ cb[3] = Pending

(***************************************************************************)
(* C31: forEachChunkedAsync with delayBetweenChunks > 0 over W windows     *)
(* awaits exactly W-1 delays between windows: one after onChunkComplete of *)
(* each window except the last and before the first callback of the next   *)
(* window, and none after the last window.                                 *)
(***************************************************************************)
DelayedAfter == {delays[k] : k \in DOMAIN delays}
\* W - 1 for W windows, none for an empty collection
BetweenWindows == IF Chunks > 0 THEN Chunks - 1 ELSE 0

C31_DelaysBetweenWindows ==
    (engine = "forEachChunkedAsync" /\ options.delayBetweenChunks > 0) =>
      /\ \A k \in DOMAIN delays : delays[k] = k - 1 /\ delays[k] < Chunks - 1
      /\ \A w \in DelayedAfter : options.hasOnChunkComplete => w \in Reported
      /\ \A q \in Started :
           /\ \A w \in 0..(Window(q) - 1) : w \in DelayedAfter
           /\ pc = "delay" => Window(q) < chunkIndex
      /\ Len(delays) = Min(chunkIndex, BetweenWindows)
      /\ Completed => Len(delays) = BetweenWindows

\* three windows of one element each are through: two delays were awaited
C31_Witness ==
    /\ engine = "forEachChunkedAsync" /\ options.delayBetweenChunks > 0
    /\ Completed /\ Chunks = 3 /\ Len(calls) = 3
    /\ delays = <<0, 1>> /\ Len(chunkLog) = 3

(***************************************************************************)
(* C32: forEachChunked, and forEachChunkedAsync with concurrency <= 1,     *)
(* with breakOnError=true: when the callback fails at some element the     *)
(* callback has been invoked exactly for the elements up to and including  *)
(* the failing one, no element of the same or of a later window is invoked *)
(* afterwards, and the call throws.                                        *)
(***************************************************************************)
SequentialChunked ==
    /\ engine \in {"forEachChunked", "forEachChunkedAsync"}
    /\ ChunkConcurrency <= 1

C32_ChunkedBreakOnError ==
    (SequentialChunked /\ options.breakOnError) =>
      \A f \in Failed :
         /\ pc = "done"
         /\ result.kind \notin {"pending", "ok"}
         /\ Started = {p \in Eligible : p <= f}
         /\ Len(calls) = Cardinality(Started)
         /\ InOrder
         /\ ~ENABLED NextChunk

\* windows of one element: the failure is in the second window and the
\* third window is never entered
C32_Witness ==
    /\ SequentialChunked /\ options.breakOnError
    /\ engine = "forEachChunkedAsync"
    /\ options.chunkSize = 1 /\ Length = 3 /\ Eligible = {1, 2, 3}
    /\ Failed = {2} /\ Started = {1, 2}
    /\ pc = "done"

(***************************************************************************)
(* C33: the chunked engine applies the error policy of the sequential      *)
(* engine: with breakOnError=true the error thrown by forEachChunked or    *)
(* forEachChunkedAsync for a failing element is a wrapper that carries the *)
(* index (or key) of the failing element and the original error, not the   *)
(* raw error of the callback.                                              *)
(***************************************************************************)
C33_ChunkedErrorWrapped ==
    (/\ engine \in {"forEachChunked", "forEachChunkedAsync"}
     /\ options.breakOnError
     /\ pc = "done" /\ Failed # {}) =>
        \E f \in Failed : result = ForEachError(AtOfPos(f), cb[f].v)

(***************************************************************************)
(* C34: take(n) yields at most n values; once n values have been produced  *)
(* every later pull returns done without calling next() on its upstream    *)
(* again (nothing upstream of the stage moves: no counter, no read of the  *)
(* source, no evaluation of a predicate or a transform); take(0) never     *)
(* pulls its upstream at all.                                              *)
(***************************************************************************)
TakeStages == {k \in DOMAIN chain : chain[k].op = "take"}
AtLimit(k) == chain[k].n >= chain[k].arg

C34_TakeStopsPulling ==
    [][engine = "forEachLazy" =>
         /\ \A k \in TakeStages :
              /\ chain'[k].n <= chain'[k].arg
              /\ Len(yielded') <= chain'[k].arg
              /\ AtLimit(k) =>
                   /\ \A j \in 1..k : chain'[j] = chain[j]
                   /\ reads' = reads
                   /\ evals' = evals
                   /\ yielded' = yielded
                   /\ next(LazyState, k) = Done(LazyState)
         /\ \A k \in DOMAIN chain' :
              (chain'[k].op = "take" /\ chain'[k].arg = 0) =>
                 /\ yielded' = <<>>
                 /\ evals' = 0
                 /\ reads' = reads
                 /\ \A j \in 1..(k - 1) : chain'[j].n = chain[j].n]_vars

\* take(1) over three elements, not preloaded: one value was produced, a
\* later pull reported done, and the source was read once
C34_Witness ==
    /\ engine = "forEachLazy" /\ isArray(target) /\ Len(target.elems) = 3
    /\ ~options.preloadNext /\ ~options.reverse
    /\ Len(chain) = 2 /\ chain[2].op = "take" /\ chain[2].arg = 1
    /\ Len(yielded) = 1 /\ exhausted
    /\ reads = {0} /\ chain[1].n = 1

(***************************************************************************)
(* C35: skip(n) discards exactly the first min(n, upstream length) values  *)
(* of its upstream and then yields every remaining upstream value,         *)
(* unchanged and in order; if the upstream is exhausted while skipping,    *)
(* the stage reports done and stops pulling to skip.                       *)
(***************************************************************************)
SkipStages == {k \in DOMAIN chain : chain[k].op = "skip"}
DropFirst(seq, n) == SubSeq(seq, Min(n, Len(seq)) + 1, Len(seq))

\* what is left for a skip stage to discard
ToSkip(k) == chain[k].arg - chain[k].n

C35_SkipDropsPrefix ==
    engine = "forEachLazy" =>
      \A k \in SkipStages :
         LET upstream == Drain(LazyState, k - 1, <<>>)
             stage == Drain(LazyState, k, <<>>)
             first == next(LazyState, k)
         IN /\ ToSkip(k) >= 0
            /\ stage.out = DropFirst(upstream.out, ToSkip(k))
            /\ stage.st.chain[k].n = chain[k].n + Min(ToSkip(k), Len(upstream.out))
            /\ Len(upstream.out) <= ToSkip(k) =>
                  /\ first.done
                  /\ first.st = [upstream.st EXCEPT
                                    !.chain[k].n = chain[k].n + Len(upstream.out)]

\* skip(2) over three elements: the third element alone came out
C35_Witness ==
    /\ engine = "forEachLazy" /\ isArray(target) /\ Len(target.elems) = 3
    /\ ~options.reverse
    /\ Len(chain) = 2 /\ chain[2].op = "skip" /\ chain[2].arg = 2
    /\ yielded = <<target.elems[3]>> /\ exhausted
    /\ chain[2].n = 2

\* skip(2) over one element: the source ran out while skipping
C35_WitnessShort ==
    /\ engine = "forEachLazy" /\ isArray(target) /\ Len(target.elems) = 1
    /\ Len(chain) = 2 /\ chain[2].op = "skip" /\ chain[2].arg = 2
    /\ yielded = <<>> /\ exhausted
    /\ chain[2].n = 1

(***************************************************************************)
(* The arrays an engine holds while it builds its working view.  "caller"  *)
(* is the caller's array, "keys" the array Object.keys returned, "copy"    *)
(* the array slice() allocated.  reverse() works in place.                 *)
(***************************************************************************)
Heap == [caller |-> target.elems, keys |-> ObjectKeys(target), copy |-> <<>>]
Stays(r) == [heap |-> Heap, ref |-> r]

\* mutant: no copy is made, the receiver itself is handed on
ArraySlice_Alias(h, r, from, to) == [heap |-> h, ref |-> r]

\* Array.prototype.slice(from, to): a new array
ArraySlice(h, r, from, to) ==
    [heap |-> [h EXCEPT !.copy = Slice(h[r], from, to)], ref |-> "copy"]

\* Array.prototype.reverse(): reverses the receiver in place, returns it
ArrayReverse(h, r) == [heap |-> [h EXCEPT ![r] = Reverse(h[r])], ref |-> r]

\* const items = reverse ? array.slice().reverse() : array
\* const items = reverse ? keys.reverse() : keys
WorkingView ==
    IF isArray(target)
    THEN IF options.reverse
         THEN LET copy == ArraySlice(Heap, "caller", 0, Len(target.elems))
              IN ArrayReverse(copy.heap, copy.ref)
         ELSE Stays("caller")
    ELSE IF options.reverse THEN ArrayReverse(Heap, "keys") ELSE Stays("keys")

\* ArrayLazyIterator: this._array = array, and _preloadBuffer() when
\* preloadNext; ObjectLazyIterator: this._keys = Object.keys(object),
\* reversed in place
LazyView ==
    IF ~isArray(target)
    THEN IF options.reverse THEN ArrayReverse(Heap, "keys") ELSE Stays("keys")
    ELSE IF ~options.preloadNext THEN Stays("caller")
    ELSE LET start == ArrayLazyIterator.n
             len == Len(target.elems)
         IN IF options.reverse
            THEN LET end == IF start - BufferSize > 0 THEN start - BufferSize ELSE 0
                     copy == ArraySlice(Heap, "caller", end, start + 1)
                 IN ArrayReverse(copy.heap, copy.ref)
            ELSE ArraySlice(Heap, "caller", start, Min(len, start + BufferSize))

(***************************************************************************)
(* Every engine, the lazy iterator and the generators on one collection.   *)
(***************************************************************************)
InitViews == Init \/ InitLazy

NextViews == Next \/ NextIterators

SpecViews == InitViews /\ [][NextViews]_vars

(***************************************************************************)
(* C36: no engine mutates the caller's collection: after any call of       *)
(* forEach, forEachAsync, forEachParallel, forEachChunked,                 *)
(* forEachChunkedAsync, forEachLazy or forEachGenerator, with reverse on   *)
(* or off, the caller's array has the same elements in the same order and  *)
(* the map the same keys and values as before the call (the callback not   *)
(* modifying it): the working view is reversed, the caller's array is not. *)
(***************************************************************************)
CallerKept ==
    /\ WorkingView.heap.caller = target.elems
    /\ engine # "forEachLazy" => Items = WorkingView.heap[WorkingView.ref]
    /\ engine = "forEachLazy" =>
          /\ LazyView.heap.caller = target.elems
          /\ ~isArray(target) => Items = LazyView.heap[LazyView.ref]

C36_CallerCollectionKept ==
    [][CallerKept /\ CallerKept' /\ target' = target]_vars

\* a reversed call over an array that is not a palindrome has run
C36_Witness ==
    /\ engine = "forEachParallel" /\ isArray(target) /\ options.reverse
    /\ Len(target.elems) = 3 /\ target.elems[1] # target.elems[3]
    /\ Completed /\ Len(calls) >= 2

(***************************************************************************)
(* C37: in every array engine and mode (sequential, grouped parallel,      *)
(* preserveOrder parallel, chunked, chunked async with and without         *)
(* concurrency), with reverse on or off and also when the array holds      *)
(* duplicate values, each invocation of the callback receives a pair       *)
(* (value, index) whose value is the element stored at that index of the   *)
(* caller's array, and no index is passed to the callback twice in a call. *)
(***************************************************************************)
C37_ValueBelongsToIndex ==
    (isArray(target) /\ engine # "forEachLazy") =>
      /\ \A k \in DOMAIN calls :
           /\ calls[k].at \in 0..(Len(target.elems) - 1)
           /\ calls[k].item = Read(target.elems[calls[k].at + 1])
      /\ \A k, l \in DOMAIN calls : k # l => calls[k].at # calls[l].at

\* grouped mode, reversed, over an array whose first and last values are
\* equal: three invocations
C37_Witness ==
    /\ engine = "forEachParallel" /\ ~options.preserveOrder /\ options.reverse
    /\ target.kind = "array" /\ target.elems = <<"a", "b", "a">>
    /\ Len(calls) = 3

(***************************************************************************)
(* forEachParallel in preserveOrder mode, with every step of the engine    *)
(* taken in the end: the microtasks run, and every started callback        *)
(* settles or meets its deadline.                                          *)
(***************************************************************************)
InitOrdered == InitPar /\ options.preserveOrder

NextOrdered ==
    \/ forEachArrayParallel
    \/ forEachObjectParallel
    \/ LateSettle

FairOrdered ==
    /\ WF_vars(forEachArrayParallel)
    /\ WF_vars(forEachObjectParallel)

SpecOrdered == InitOrdered /\ [][NextOrdered]_vars /\ FairOrdered

(***************************************************************************)
(* C38: in preserveOrder mode no element starves: provided every started   *)
(* callback eventually settles or hits its timeout, every element of the   *)
(* collection is eventually admitted by the semaphore and has its callback *)
(* started, also after an earlier element failed, and the wait queue is    *)
(* empty in the end.                                                       *)
(***************************************************************************)
AllStarted == Started = Eligible /\ queue = <<>>

C39_NoReportFromFailedWindow ==
    (/\ engine \in {"forEachChunked", "forEachChunkedAsync"}
     /\ options.breakOnError /\ options.hasOnChunkComplete) =>
        \A f \in Failed :
           /\ Len(chunkLog) = Window(f)
           /\ \A k \in DOMAIN chunkLog : chunkLog[k][1] = k - 1
           /\ chunkIndex = Window(f)
           /\ ~ENABLED ChunkComplete
           /\ pc = "done" => result.kind = "raw"

\* windows of one element, two at a time allowed: the second callback
\* failed, the first window alone was reported
C39_Witness ==
    /\ engine = "forEachChunkedAsync" /\ ChunkConcurrency = 2
    /\ options.breakOnError /\ options.hasOnChunkComplete
    /\ options.chunkSize = 1 /\ Length = 3
    /\ Failed = {2} /\ pc = "done"
    /\ chunkLog = <<<<0, 1>>>>

(***************************************************************************)
(* C40: after any sequence of register (with or without allowOverride),    *)
(* unregister and clear (and enable, disable) on a PluginManager, the      *)
(* execution order holds no name twice and holds exactly the names that    *)
(* are in the plugin table; a registration with allowOverride under a name *)
(* that is registered leaves that name at the position it had, and every   *)
(* other name at its own.                                                  *)
(***************************************************************************)
\* the keys of this._plugins
Registered == {name \in PluginNames : Has(name)}

\* the position of a name in the order (0 when the order does not hold it)
Position(s, x) ==
    IF \E n \in DOMAIN s : s[n] = x
    THEN CHOOSE n \in DOMAIN s : s[n] = x /\ \A m \in 1..(n - 1) : s[m] # x
    ELSE 0

OrderMatchesTable ==
    /\ \A m, n \in DOMAIN executionOrder :
          executionOrder[m] = executionOrder[n] => m = n
    /\ Range(executionOrder) = Registered

C40_OrderMatchesTable ==
    /\ [](engine = "PluginManager" => OrderMatchesTable)
    /\ [][\A plugin \in PluginObjects, config \in PluginConfigs :
            (/\ Register(plugin, config)
             /\ plugin.name # "" /\ Has(plugin.name)
             /\ config.allowOverride) =>
                /\ Len(executionOrder') = Len(executionOrder)
                /\ \A name \in PluginNames :
                      Position(executionOrder', name) = Position(executionOrder, name)
                /\ Position(executionOrder', plugin.name) > 0
                /\ plugins'[plugin.name] = PluginImpl(plugin, config)]_vars

\* two plugins are left of three, the later registered one first in the
\* name order, and the first of the order is a plugin that can be replaced
\* in place by a registration with allowOverride
C40_Witness ==
    /\ engine = "PluginManager"
    /\ raised = Ok
    /\ executionOrder = <<"p3", "p1">>
    /\ Registered = {"p1", "p3"}
    /\ ~plugins["p3"].enabled /\ plugins["p3"].hooks = {}
    /\ ENABLED (/\ Register([name |-> "p3", hooks |-> Hooks],
                            [autoEnable |-> UNDEF, allowOverride |-> TRUE])
                /\ plugins'["p3"].enabled
                /\ executionOrder' = executionOrder)

====
